---------------------------- MODULE Spec2Model ----------------------------
(***************************************************************************)
(* A model of the CLBG container engine (lanbuddy/clbg-ts): the 64-byte    *)
(* header codec (models/Header.ts), the streaming digest                   *)
(* (utils/hashGenerator.ts) and the create / open / extractGame            *)
(* orchestration of models/CLBGFile.ts.                                    *)
(*                                                                         *)
(* A file is a sequence of bytes (0..255), a directory a function from     *)
(* entry names to file contents.  Offsets are 0-based as in the source;    *)
(* TLA+ sequences are 1-based, so byte offset k is element k + 1.          *)
(***************************************************************************)
EXTENDS Integers, Sequences, FiniteSets, TLC

(***************************************************************************)
(* Bounds of the model.                                                    *)
(***************************************************************************)
\* longest content of a file of the source directory
MaxContentLen == 1
\* longest cover blob
MaxCoverLen == 1
\* longest metadata block (metadata blocks have 1..MaxMetaLen bytes)
MaxMetaLen == 2
\* bytes a stream delivers per chunk (the streams' highWaterMark)
ChunkLen == 4

\* longest text held by the name of a Metadata and by a tag of its lists
MaxStrLen == 1

\* most steps a progress session is constructed with
MaxSteps == 3

\* most calls made on a progress session (a reading of the clock that has
\* moved on counts as one)
MaxCalls == 4

\* most bytes a stream given to generateHash delivers
MaxHashLen == 3

(***************************************************************************)
(* Byte buffers.                                                           *)
(***************************************************************************)
Zeros(n) == [i \in 1..n |-> 0]

Min(a, b) == IF a < b THEN a ELSE b

\* buf.slice(start, end), 0-based, end exclusive, clamped to the buffer
Slice(buf, start, end) ==
    LET e == Min(end, Len(buf))
    IN  IF start >= e THEN <<>> ELSE [i \in 1..(e - start) |-> buf[start + i]]

\* the bytes of buf from offset start to its end
From(buf, start) == Slice(buf, start, Len(buf))

\* source.copy(target, targetStart) / target.write(string, offset): the bytes
\* of src that fit are laid over target from offset off, the rest is dropped
CopyInto(target, src, off) ==
    [i \in 1..Len(target) |->
        IF i > off /\ i <= off + Len(src) THEN src[i - off] ELSE target[i]]

\* buffer.writeUInt32LE(value, offset)
WriteUInt32LE(buf, value, off) ==
    CopyInto(buf,
             << value % 256, (value \div 256) % 256,
                (value \div 65536) % 256, (value \div 16777216) % 256 >>,
             off)

\* data.readUInt32LE(offset)
ReadUInt32LE(data, off) ==
    data[off + 1] + 256 * data[off + 2] + 65536 * data[off + 3]
        + 16777216 * data[off + 4]

(***************************************************************************)
(* Header.ts                                                               *)
(***************************************************************************)
DEFAULT_VERSION == 1
DEFAULT_ZERO == 0
HEADER_SIZE == 64
HEADER_START == 0
\* "CLBG\r\n\x1A\n"
SIGNATURE == <<67, 76, 66, 71, 13, 10, 26, 10>>

ARCHIVE_HASH == 32
ARCHIVE_OFFSET == 28
COVER_LENGTH == 24
COVER_OFFSET == 20
METADATA_LENGTH == 16
METADATA_OFFSET == 12
VERSION == 8

\* an option that is not given (undefined)
Undefined == -1

\* JavaScript's  x || d  on an optional number: undefined and 0 are falsy
OrNumber(x, d) == IF x = Undefined \/ x = 0 THEN d ELSE x

\* a Buffer option that is not given (no buffer: its element is no byte)
UndefinedBuffer == <<Undefined>>

\* JavaScript's  x || d  on an optional Buffer: every Buffer is truthy
OrBuffer(x, d) == IF x = UndefinedBuffer THEN d ELSE x

\* new Header(options)
NewHeader(options) ==
    [ version        |-> OrNumber(options.version, DEFAULT_VERSION),
      metadataOffset |-> OrNumber(options.metadataOffset, HEADER_SIZE),
      metadataLength |-> OrNumber(options.metadataLength, DEFAULT_ZERO),
      coverOffset    |-> OrNumber(options.coverOffset, DEFAULT_ZERO),
      coverLength    |-> OrNumber(options.coverLength, DEFAULT_ZERO),
      archiveOffset  |-> OrNumber(options.archiveOffset, DEFAULT_ZERO),
      archiveHash    |-> OrBuffer(options.archiveHash, Zeros(DEFAULT_ZERO)) ]

\* mutant: coverOffset and coverLength are written at each other's offset
HeaderToBytesSwapped(h) ==
    LET b0 == CopyInto(Zeros(HEADER_SIZE), SIGNATURE, HEADER_START)
        b1 == WriteUInt32LE(b0, h.version, VERSION)
        b2 == WriteUInt32LE(b1, h.metadataOffset, METADATA_OFFSET)
        b3 == WriteUInt32LE(b2, h.metadataLength, METADATA_LENGTH)
        b4 == WriteUInt32LE(b3, h.coverOffset, COVER_LENGTH)
        b5 == WriteUInt32LE(b4, h.coverLength, COVER_OFFSET)
        b6 == WriteUInt32LE(b5, h.archiveOffset, ARCHIVE_OFFSET)
    IN  CopyInto(b6, h.archiveHash, ARCHIVE_HASH)

\* header.toBytes()
HeaderToBytes(h) ==
    LET b0 == CopyInto(Zeros(HEADER_SIZE), SIGNATURE, HEADER_START)
        b1 == WriteUInt32LE(b0, h.version, VERSION)
        b2 == WriteUInt32LE(b1, h.metadataOffset, METADATA_OFFSET)
        b3 == WriteUInt32LE(b2, h.metadataLength, METADATA_LENGTH)
        b4 == WriteUInt32LE(b3, h.coverOffset, COVER_OFFSET)
        b5 == WriteUInt32LE(b4, h.coverLength, COVER_LENGTH)
        b6 == WriteUInt32LE(b5, h.archiveOffset, ARCHIVE_OFFSET)
    IN  CopyInto(b6, h.archiveHash, ARCHIVE_HASH)

\* Header.fromBytes(data)
HeaderFromBytes(data) ==
    NewHeader([ version        |-> ReadUInt32LE(data, VERSION),
                metadataOffset |-> ReadUInt32LE(data, METADATA_OFFSET),
                metadataLength |-> ReadUInt32LE(data, METADATA_LENGTH),
                coverOffset    |-> ReadUInt32LE(data, COVER_OFFSET),
                coverLength    |-> ReadUInt32LE(data, COVER_LENGTH),
                archiveOffset  |-> ReadUInt32LE(data, ARCHIVE_OFFSET),
                archiveHash    |-> Slice(data, ARCHIVE_HASH, HEADER_SIZE) ])

\* mutant: the archive offset leaves out the cover
HeaderFromDataNoCover(metadata, cover, archiveHash) ==
    NewHeader([ version        |-> Undefined,
                metadataOffset |-> Undefined,
                metadataLength |-> Len(metadata),
                coverOffset    |-> HEADER_SIZE + Len(metadata),
                coverLength    |-> Len(cover),
                archiveOffset  |-> HEADER_SIZE + Len(metadata),
                archiveHash    |-> archiveHash ])

\* Header.fromData(metadata, cover, archiveHash)
HeaderFromData(metadata, cover, archiveHash) ==
    NewHeader([ version        |-> Undefined,
                metadataOffset |-> Undefined,
                metadataLength |-> Len(metadata),
                coverOffset    |-> HEADER_SIZE + Len(metadata),
                coverLength    |-> Len(cover),
                archiveOffset  |-> HEADER_SIZE + Len(metadata) + Len(cover),
                archiveHash    |-> archiveHash ])


(***************************************************************************)
(* The digest (createHash("sha512-256"): update / digest).  The primitive  *)
(* is an external collaborator; it is modelled by a polynomial rolling     *)
(* digest, folded byte by byte, whose value is laid little-endian into the *)
(* 32-byte result.  Like the real one it depends on every byte and on the  *)
(* order of the bytes, it is independent of the chunking, and changing one *)
(* byte of the input changes it.                                           *)
(***************************************************************************)
\* bytes of a digest (sha512-256)
HASH_SIZE == 32

\* createHash(...)
DigestInit == 1

RECURSIVE DigestUpdate(_, _)
\* hash.update(chunk)
DigestUpdate(h, chunk) ==
    IF chunk = <<>> THEN h
    ELSE DigestUpdate((h * 257 + Head(chunk) + 1) % 4194304, Tail(chunk))

\* hash.digest()
DigestFinal(h) == WriteUInt32LE(Zeros(HASH_SIZE), h, 0)

\* the digest of a whole byte sequence
DigestOf(bytes) == DigestFinal(DigestUpdate(DigestInit, bytes))

(***************************************************************************)
(* Directories and the archive codec (the "compressing" package: tar /     *)
(* tgz Stream and uncompress).  The codec is an external collaborator,     *)
(* modelled at its interface: pack writes one record per entry, in name    *)
(* order, (name, length, content), and a closing 0; gzip puts its magic    *)
(* number 0x1f 0x8b in front of the transformed bytes.                     *)
(***************************************************************************)
\* entry names (one byte each, valid UTF-8, never 0)
Names == {65, 66}

\* file contents of the source tree
Contents == UNION { [1..n -> {7}] : n \in 0..MaxContentLen }

\* the entries of a directory: a function from names to contents
EmptyEntries == [n \in {} |-> <<>>]

Dir(entries) == [exists |-> TRUE, entries |-> entries]

NoDir == [exists |-> FALSE, entries |-> EmptyEntries]

File(bytes) == [exists |-> TRUE, bytes |-> bytes]

NoFile == [exists |-> FALSE, bytes |-> <<>>]

\* a regular file where a directory is expected (it holds no entries)
FileAtTarget == [exists |-> TRUE, bytes |-> <<1>>, entries |-> EmptyEntries]

\* statSync(path).isFile(): what the path holds has bytes
IsFile(path) == "bytes" \in DOMAIN path

\* statSync(path).isDirectory()
IsDirectory(path) == "bytes" \notin DOMAIN path

\* mutant: the two type errors are thrown for each other
CheckPathExistsSwapped(path, expectedType) ==
    IF ~path.exists THEN "PathNotFound"
    ELSE IF expectedType = "file" /\ ~IsFile(path) THEN "NotADirectory"
    ELSE IF expectedType = "directory" /\ ~IsDirectory(path) THEN "NotAFile"
    ELSE "ok"

\* checkPathExists(path, expectedType): the error it throws, or "ok" when it
\* returns
CheckPathExists(path, expectedType) ==
    IF ~path.exists THEN "PathNotFound"
    ELSE IF expectedType = "file" /\ ~IsFile(path) THEN "NotAFile"
    ELSE IF expectedType = "directory" /\ ~IsDirectory(path)
    THEN "NotADirectory"
    ELSE "ok"

MinOf(S) == CHOOSE x \in S : \A y \in S : x <= y

RECURSIVE TarEntries(_, _)
TarEntries(entries, todo) ==
    IF todo = {} THEN <<>>
    ELSE LET n == MinOf(todo)
         IN  <<n, Len(entries[n])>> \o entries[n]
                 \o TarEntries(entries, todo \ {n})

\* new compressing.tar.Stream() with addEntry(dir, {ignoreBase: true})
TarPack(entries) == TarEntries(entries, DOMAIN entries) \o <<0>>

GZIP_MAGIC_1 == 31
GZIP_MAGIC_2 == 139

\* the gzip transform of new compressing.tgz.Stream()
Gzip(bytes) ==
    <<GZIP_MAGIC_1, GZIP_MAGIC_2>> \o [i \in 1..Len(bytes) |-> 255 - bytes[i]]

\* mutant: create always takes the tar stream
PackAlwaysTar(entries, disableCompression) == TarPack(entries)

\* the bytes the compression stream of create emits
Pack(entries, disableCompression) ==
    IF disableCompression THEN TarPack(entries) ELSE Gzip(TarPack(entries))

Failed == [ok |-> FALSE, entries |-> EmptyEntries]

RECURSIVE TarUnpack(_)
\* compressing.tar.uncompress: the entries of a tar byte stream
TarUnpack(bytes) ==
    IF bytes = <<>> THEN Failed
    ELSE IF bytes[1] = 0 THEN [ok |-> TRUE, entries |-> EmptyEntries]
    ELSE IF Len(bytes) < 2 \/ Len(bytes) < 2 + bytes[2] THEN Failed
    ELSE LET rest == TarUnpack(From(bytes, 2 + bytes[2]))
         IN  IF ~rest.ok \/ bytes[1] \in DOMAIN rest.entries THEN Failed
             ELSE [ok |-> TRUE,
                   entries |-> [n \in {bytes[1]} \cup DOMAIN rest.entries |->
                                   IF n = bytes[1]
                                   THEN Slice(bytes, 2, 2 + bytes[2])
                                   ELSE rest.entries[n]]]

\* compressing.tgz.uncompress: gunzip, then untar
TgzUnpack(bytes) ==
    IF Len(bytes) < 2 \/ bytes[1] /= GZIP_MAGIC_1 \/ bytes[2] /= GZIP_MAGIC_2
    THEN Failed
    ELSE TarUnpack([i \in 1..(Len(bytes) - 2) |-> 255 - bytes[i + 2]])

\* the entries of a directory after the entries of an archive are written
\* into it
Merge(old, new) ==
    [n \in DOMAIN old \cup DOMAIN new |->
        IF n \in DOMAIN new THEN new[n] ELSE old[n]]

\* performDecompression: the codec chosen by the sniffing
Unpack(bytes, isCompressed) ==
    IF isCompressed THEN TgzUnpack(bytes) ELSE TarUnpack(bytes)


(***************************************************************************)
(* Metadata.ts: the metadata block is the UTF-8 encoding of a JSON object. *)
(* Text is a sequence of code points; a number carries one decimal place   *)
(* and is held as the count of its tenths (45 is 4.5).                     *)
(***************************************************************************)
\* JavaScript values
JsUndefined == [t |-> "undefined", v |-> 0]
JsNull == [t |-> "null", v |-> 0]
Str(s) == [t |-> "str", v |-> s]
Num(n) == [t |-> "num", v |-> n]
Bool(b) == [t |-> "bool", v |-> b]
Arr(a) == [t |-> "arr", v |-> a]
Obj(members) == [t |-> "obj", v |-> members]

\* Metadata fields before a constructor has set them
NoMetadata ==
    [ igdbId |-> JsUndefined, name |-> JsUndefined,
      description |-> JsUndefined, rating |-> JsUndefined,
      developer |-> JsUndefined, publisher |-> JsUndefined,
      releaseDate |-> JsUndefined, genres |-> JsUndefined,
      themes |-> JsUndefined, keywords |-> JsUndefined,
      server |-> JsUndefined ]

\* the left operand of || counts as missing
Falsy(x) ==
    \/ x.t \in {"undefined", "null"}
    \/ x.t = "str" /\ x.v = <<>>
    \/ x.t = "num" /\ x.v = 0
    \/ x.t = "bool" /\ x.v = FALSE

\* mutant: the left operand is taken whatever it is
OrLeft(a, b) == a

\* a || b
Or(a, b) == IF Falsy(a) THEN b ELSE a

METADATA_ZERO == 0

\* new Metadata(options)
NewMetadata(options) ==
    [ igdbId |-> options.igdbId,
      name |-> options.name,
      description |-> Or(options.description, Str(<<>>)),
      rating |-> Or(options.rating, Num(METADATA_ZERO)),
      developer |-> Or(options.developer, Str(<<>>)),
      publisher |-> Or(options.publisher, Str(<<>>)),
      releaseDate |-> Or(options.releaseDate, Str(<<>>)),
      genres |-> Or(options.genres, Arr(<<>>)),
      themes |-> Or(options.themes, Arr(<<>>)),
      keywords |-> Or(options.keywords, Arr(<<>>)),
      server |-> Or(options.server, Bool(FALSE)) ]

\* the property names toJSON writes
KEY_DESCRIPTION == <<100, 101, 115, 99, 114, 105, 112, 116, 105, 111, 110>>  \* "description"
KEY_DEVELOPER == <<100, 101, 118, 101, 108, 111, 112, 101, 114>>  \* "developer"
KEY_GENRES == <<103, 101, 110, 114, 101, 115>>  \* "genres"
KEY_IGDB_ID == <<105, 103, 100, 98, 95, 105, 100>>  \* "igdb_id"
KEY_KEYWORDS == <<107, 101, 121, 119, 111, 114, 100, 115>>  \* "keywords"
KEY_NAME == <<110, 97, 109, 101>>  \* "name"
KEY_PUBLISHER == <<112, 117, 98, 108, 105, 115, 104, 101, 114>>  \* "publisher"
KEY_RATING == <<114, 97, 116, 105, 110, 103>>  \* "rating"
KEY_RELEASE_DATE == <<114, 101, 108, 101, 97, 115, 101, 95, 100, 97, 116, 101>>  \* "release_date"
KEY_SERVER == <<115, 101, 114, 118, 101, 114>>  \* "server"
KEY_THEMES == <<116, 104, 101, 109, 101, 115>>  \* "themes"

QUOTE == 34
BACKSLASH == 92
SLASH == 47
COMMA == 44
COLON == 58
DOT == 46
DIGIT_ZERO == 48
DIGIT_NINE == 57
OPEN_BRACKET == 91
CLOSE_BRACKET == 93
OPEN_BRACE == 123
CLOSE_BRACE == 125
LIT_TRUE == <<116, 114, 117, 101>>  \* "true"
LIT_FALSE == <<102, 97, 108, 115, 101>>  \* "false"
LIT_NULL == <<110, 117, 108, 108>>  \* "null"

RECURSIVE Digits(_)
\* the decimal digits of a natural number
Digits(n) ==
    IF n < 10 THEN <<DIGIT_ZERO + n>>
    ELSE Digits(n \div 10) \o <<DIGIT_ZERO + (n % 10)>>

\* the characters of a string as they are, quotes and backslashes included
RawChars(s) == s

RECURSIVE EscapeChars(_)
\* the characters of a string, a quote and a backslash preceded by a backslash
EscapeChars(s) ==
    IF s = <<>> THEN <<>>
    ELSE (IF Head(s) \in {QUOTE, BACKSLASH} THEN <<BACKSLASH, Head(s)>>
          ELSE <<Head(s)>>) \o EscapeChars(Tail(s))

\* JSON.stringify of a string
QuoteString(s) == <<QUOTE>> \o EscapeChars(s) \o <<QUOTE>>

RECURSIVE JoinWithCommas(_)
JoinWithCommas(parts) ==
    IF parts = <<>> THEN <<>>
    ELSE IF Len(parts) = 1 THEN parts[1]
    ELSE parts[1] \o <<COMMA>> \o JoinWithCommas(Tail(parts))

\* JSON.stringify of a value toJSON holds
Stringify(x) ==
    CASE x.t = "str" -> QuoteString(x.v)
      [] x.t = "num" -> Digits(x.v \div 10)
                          \o (IF x.v % 10 = 0 THEN <<>>
                              ELSE <<DOT, DIGIT_ZERO + (x.v % 10)>>)
      [] x.t = "bool" -> IF x.v THEN LIT_TRUE ELSE LIT_FALSE
      [] x.t = "arr" ->
            <<OPEN_BRACKET>>
                \o JoinWithCommas([i \in 1..Len(x.v) |-> QuoteString(x.v[i].v)])
                \o <<CLOSE_BRACKET>>
      [] OTHER -> LIT_NULL

\* the members of the object toJSON() returns, in the order they are written
Members(m) ==
    << <<KEY_DESCRIPTION, m.description>>,
       <<KEY_DEVELOPER, m.developer>>,
       <<KEY_GENRES, m.genres>>,
       <<KEY_IGDB_ID, m.igdbId>>,
       <<KEY_KEYWORDS, m.keywords>>,
       <<KEY_NAME, m.name>>,
       <<KEY_PUBLISHER, m.publisher>>,
       <<KEY_RATING, m.rating>>,
       <<KEY_RELEASE_DATE, m.releaseDate>>,
       <<KEY_SERVER, m.server>>,
       <<KEY_THEMES, m.themes>> >>

\* JSON.stringify of an object with these members
ObjectText(members) ==
    <<OPEN_BRACE>>
        \o JoinWithCommas([i \in 1..Len(members) |->
               QuoteString(members[i][1]) \o <<COLON>>
                   \o Stringify(members[i][2])])
        \o <<CLOSE_BRACE>>

\* JSON.stringify(this.toJSON())
ToJSON(m) == ObjectText(Members(m))

RECURSIVE Flatten(_)
\* the concatenation of a sequence of sequences
Flatten(parts) ==
    IF parts = <<>> THEN <<>>
    ELSE IF Len(parts) = 1 THEN parts[1]
    ELSE LET half == Len(parts) \div 2
         IN  Flatten(SubSeq(parts, 1, half))
                 \o Flatten(SubSeq(parts, half + 1, Len(parts)))

\* Buffer.from(text, "utf-8"), for code points below 2048
Utf8Encode(text) ==
    Flatten([i \in 1..Len(text) |->
        IF text[i] < 128 THEN <<text[i]>>
        ELSE <<192 + (text[i] \div 64), 128 + (text[i] % 64)>>])

REPLACEMENT_CHARACTER == 65533

\* the byte starts a two-byte sequence that is complete
IsLead(data, i) ==
    /\ i \in 1..Len(data)
    /\ data[i] \in 194..223
    /\ i + 1 <= Len(data)
    /\ data[i + 1] \in 128..191

\* data.toString("utf-8"): a byte that starts no sequence the model knows,
\* or a sequence cut short, decodes to U+FFFD
Utf8Decode(data) ==
    Flatten([i \in 1..Len(data) |->
        IF data[i] < 128 THEN <<data[i]>>
        ELSE IF IsLead(data, i)
             THEN <<(data[i] - 192) * 64 + (data[i + 1] - 128)>>
        ELSE IF IsLead(data, i - 1) THEN <<>>
        ELSE <<REPLACEMENT_CHARACTER>>])

\* toBytes()
MetadataToBytes(m) == Utf8Encode(ToJSON(m))

\* what the parser returns: a value and the position after it, or a failure
ParseFail == [ok |-> FALSE, val |-> JsUndefined, next |-> 0]
Parsed(val, next) == [ok |-> TRUE, val |-> val, next |-> next]

\* the character at a position, -1 past the end
At(s, i) == IF i \in 1..Len(s) THEN s[i] ELSE -1

IsDigit(ch) == ch \in DIGIT_ZERO..DIGIT_NINE

\* the text holds the literal at the position
HasLiteral(s, i, lit) ==
    /\ i + Len(lit) - 1 <= Len(s)
    /\ \A k \in 1..Len(lit) : s[i + k - 1] = lit[k]

RECURSIVE StringBody(_, _, _)
\* the characters of a string literal from position i up to its closing quote
StringBody(s, i, acc) ==
    IF At(s, i) = -1 \/ At(s, i) < 32 THEN ParseFail
    ELSE IF s[i] = QUOTE THEN Parsed(Str(acc), i + 1)
    ELSE IF s[i] = BACKSLASH
         THEN IF At(s, i + 1) \in {QUOTE, BACKSLASH, SLASH}
              THEN StringBody(s, i + 2, Append(acc, s[i + 1]))
              ELSE ParseFail
    ELSE StringBody(s, i + 1, Append(acc, s[i]))

ParseString(s, i) ==
    IF At(s, i) = QUOTE THEN StringBody(s, i + 1, <<>>) ELSE ParseFail

RECURSIVE IntegerPart(_, _, _)
\* the digits from position i on: their value and the position after them
IntegerPart(s, i, acc) ==
    IF IsDigit(At(s, i)) THEN IntegerPart(s, i + 1, acc * 10 + (s[i] - DIGIT_ZERO))
    ELSE [val |-> acc, next |-> i]

\* a number: digits, then at most one decimal place
ParseNumber(s, i) ==
    IF ~IsDigit(At(s, i)) THEN ParseFail
    ELSE LET int == IntegerPart(s, i, 0)
         IN  IF At(s, int.next) /= DOT THEN Parsed(Num(int.val * 10), int.next)
             ELSE IF IsDigit(At(s, int.next + 1)) /\ ~IsDigit(At(s, int.next + 2))
                  THEN Parsed(Num(int.val * 10 + (s[int.next + 1] - DIGIT_ZERO)),
                              int.next + 2)
                  ELSE ParseFail

RECURSIVE ParseValue(_, _)
RECURSIVE ArrayItems(_, _, _)
RECURSIVE ObjectMembers(_, _, _)

\* the elements of an array from position i up to its closing bracket
ArrayItems(s, i, acc) ==
    LET item == ParseValue(s, i)
    IN  IF ~item.ok THEN ParseFail
        ELSE IF At(s, item.next) = COMMA
             THEN ArrayItems(s, item.next + 1, Append(acc, item.val))
        ELSE IF At(s, item.next) = CLOSE_BRACKET
             THEN Parsed(Arr(Append(acc, item.val)), item.next + 1)
        ELSE ParseFail

\* the members of an object from position i up to its closing brace
ObjectMembers(s, i, acc) ==
    LET key == ParseString(s, i)
    IN  IF ~key.ok \/ At(s, key.next) /= COLON THEN ParseFail
        ELSE LET item == ParseValue(s, key.next + 1)
                 members == Append(acc, [k |-> key.val.v, val |-> item.val])
             IN  IF ~item.ok THEN ParseFail
                 ELSE IF At(s, item.next) = COMMA
                      THEN ObjectMembers(s, item.next + 1, members)
                 ELSE IF At(s, item.next) = CLOSE_BRACE
                      THEN Parsed(Obj(members), item.next + 1)
                 ELSE ParseFail

ParseValue(s, i) ==
    LET ch == At(s, i)
    IN  IF ch = QUOTE THEN ParseString(s, i)
        ELSE IF IsDigit(ch) THEN ParseNumber(s, i)
        ELSE IF ch = OPEN_BRACKET
             THEN IF At(s, i + 1) = CLOSE_BRACKET THEN Parsed(Arr(<<>>), i + 2)
                  ELSE ArrayItems(s, i + 1, <<>>)
        ELSE IF ch = OPEN_BRACE
             THEN IF At(s, i + 1) = CLOSE_BRACE THEN Parsed(Obj(<<>>), i + 2)
                  ELSE ObjectMembers(s, i + 1, <<>>)
        ELSE IF HasLiteral(s, i, LIT_TRUE) THEN Parsed(Bool(TRUE), i + Len(LIT_TRUE))
        ELSE IF HasLiteral(s, i, LIT_FALSE)
             THEN Parsed(Bool(FALSE), i + Len(LIT_FALSE))
        ELSE IF HasLiteral(s, i, LIT_NULL) THEN Parsed(JsNull, i + Len(LIT_NULL))
        ELSE ParseFail

\* JSON.parse(text), for text without white space: the value, or a failure
\* where JSON.parse throws
JsonParse(text) ==
    LET r == ParseValue(text, 1)
    IN  IF r.ok /\ r.next = Len(text) + 1 THEN r ELSE ParseFail

\* jsonData[key]: the member written last under the key, or undefined
Get(object, key) ==
    LET at == {i \in 1..Len(object.v) : object.v[i].k = key}
    IN  IF at = {} THEN JsUndefined
        ELSE object.v[CHOOSE i \in at : \A j \in at : j <= i].val

\* Metadata.fromBytes(data): the Metadata, or the error thrown
MetadataFromBytes(data) ==
    LET parsed == JsonParse(Utf8Decode(data))
        jsonData == parsed.val
    IN  IF ~parsed.ok THEN [result |-> "SyntaxError", metadata |-> NoMetadata]
        ELSE IF jsonData.t /= "obj"
             THEN [result |-> "TypeError", metadata |-> NoMetadata]
        ELSE [ result |-> "ok",
               metadata |-> NewMetadata(
                   [ igdbId |-> Get(jsonData, KEY_IGDB_ID),
                     name |-> Get(jsonData, KEY_NAME),
                     description |-> Get(jsonData, KEY_DESCRIPTION),
                     rating |-> Get(jsonData, KEY_RATING),
                     developer |-> Get(jsonData, KEY_DEVELOPER),
                     publisher |-> Get(jsonData, KEY_PUBLISHER),
                     releaseDate |-> Get(jsonData, KEY_RELEASE_DATE),
                     genres |-> Get(jsonData, KEY_GENRES),
                     themes |-> Get(jsonData, KEY_THEMES),
                     keywords |-> Get(jsonData, KEY_KEYWORDS),
                     server |-> Get(jsonData, KEY_SERVER) ]) ]

(***************************************************************************)
(* Buffer: the base64 text of bytes (the handle holds the cover as text).  *)
(***************************************************************************)
BASE64_PAD == 61

\* the character of a six-bit value: A-Z, a-z, 0-9, + and /
Base64Char(v) ==
    IF v < 26 THEN 65 + v
    ELSE IF v < 52 THEN 97 + (v - 26)
    ELSE IF v < 62 THEN 48 + (v - 52)
    ELSE IF v = 62 THEN 43 ELSE 47

\* the six-bit value of a character
Base64Value(ch) == CHOOSE v \in 0..63 : Base64Char(v) = ch

\* buffer.toString("base64")
Base64(bytes) ==
    Flatten([g \in 1..((Len(bytes) + 2) \div 3) |->
        LET at == 3 * (g - 1)
            n == Min(3, Len(bytes) - at)
            b1 == bytes[at + 1]
            b2 == IF n >= 2 THEN bytes[at + 2] ELSE 0
            b3 == IF n >= 3 THEN bytes[at + 3] ELSE 0
        IN  << Base64Char(b1 \div 4),
               Base64Char((b1 % 4) * 16 + (b2 \div 16)),
               IF n >= 2 THEN Base64Char((b2 % 16) * 4 + (b3 \div 64))
               ELSE BASE64_PAD,
               IF n >= 3 THEN Base64Char(b3 % 64) ELSE BASE64_PAD >>])

\* Buffer.from(text, "base64"), for text that buffer.toString("base64") wrote
Base64Decode(text) ==
    Flatten([g \in 1..(Len(text) \div 4) |->
        LET at == 4 * (g - 1)
            v1 == Base64Value(text[at + 1])
            v2 == Base64Value(text[at + 2])
            pad3 == text[at + 3] = BASE64_PAD
            pad4 == text[at + 4] = BASE64_PAD
            v3 == IF pad3 THEN 0 ELSE Base64Value(text[at + 3])
            v4 == IF pad4 THEN 0 ELSE Base64Value(text[at + 4])
        IN  <<v1 * 4 + (v2 \div 16)>>
                \o (IF pad3 THEN <<>> ELSE <<(v2 % 16) * 16 + (v3 \div 4)>>)
                \o (IF pad4 THEN <<>> ELSE <<(v3 % 4) * 64 + v4>>)])

(***************************************************************************)
(* JavaScript numbers, as far as the progress session needs them: exact    *)
(* fractions, Infinity, NaN, and Number.MAX_SAFE_INTEGER.                  *)
(***************************************************************************)
MAX_SAFE_INTEGER == [kind |-> "max", n |-> 0, d |-> 1]
NaN == [kind |-> "nan", n |-> 0, d |-> 1]
Infinity == [kind |-> "inf", n |-> 1, d |-> 1]
NegInfinity == [kind |-> "inf", n |-> -1, d |-> 1]

Abs(x) == IF x < 0 THEN -x ELSE x

RECURSIVE GCD(_, _)
GCD(a, b) == IF b = 0 THEN a ELSE GCD(b, a % b)

\* the fraction n / d (d not 0) in lowest terms
Frac(n, d) ==
    LET g == GCD(Abs(n), Abs(d))
        sign == IF d < 0 THEN -1 ELSE 1
    IN  [kind |-> "fin", n |-> sign * (n \div g), d |-> sign * (d \div g)]

Whole(n) == [kind |-> "fin", n |-> n, d |-> 1]

\* -1, 0 or 1 (of a number that is not NaN)
Sign(a) == IF a.n > 0 THEN 1 ELSE IF a.n < 0 THEN -1 ELSE 0

IsNumber(a) == a.kind \in {"fin", "inf"}

\* a + b
JsAdd(a, b) ==
    IF ~IsNumber(a) \/ ~IsNumber(b) THEN NaN
    ELSE IF a.kind = "inf" /\ b.kind = "inf"
         THEN IF a.n = b.n THEN a ELSE NaN
    ELSE IF a.kind = "inf" THEN a
    ELSE IF b.kind = "inf" THEN b
    ELSE Frac(a.n * b.d + b.n * a.d, a.d * b.d)

\* a * b
JsMul(a, b) ==
    IF ~IsNumber(a) \/ ~IsNumber(b) THEN NaN
    ELSE IF a.kind = "inf" \/ b.kind = "inf"
         THEN IF Sign(a) * Sign(b) = 0 THEN NaN
              ELSE IF Sign(a) * Sign(b) > 0 THEN Infinity ELSE NegInfinity
    ELSE LET g1 == GCD(Abs(a.n), b.d)
             g2 == GCD(Abs(b.n), a.d)
         IN  Frac((a.n \div g1) * (b.n \div g2), (a.d \div g2) * (b.d \div g1))

\* a - b
JsSub(a, b) == JsAdd(a, JsMul(Whole(-1), b))

\* a / b (a zero divisor counts as +0)
JsDiv(a, b) ==
    IF ~IsNumber(a) \/ ~IsNumber(b) THEN NaN
    ELSE IF a.kind = "inf"
         THEN IF b.kind = "inf" THEN NaN
              ELSE IF Sign(a) * Sign(b) >= 0 THEN Infinity ELSE NegInfinity
    ELSE IF b.kind = "inf" THEN Whole(0)
    ELSE IF b.n = 0
         THEN IF a.n = 0 THEN NaN
              ELSE IF a.n > 0 THEN Infinity ELSE NegInfinity
    ELSE JsMul(a, Frac(b.d, b.n))

\* a <= b (false when either is NaN)
JsLe(a, b) ==
    /\ IsNumber(a)
    /\ IsNumber(b)
    /\ IF a.kind = "inf" THEN a.n < 0 \/ a = b
       ELSE IF b.kind = "inf" THEN b.n > 0
       ELSE a.n * b.d <= b.n * a.d

(***************************************************************************)
(* progressReporter.ts                                                     *)
(***************************************************************************)
STEP_OFFSET == 1
PROGRESS_MAX == 100
UPDATE_INTERVAL == 1000

\* new ProgressReporter({callback, totalSteps}) at the time t
NewReporter(totalSteps, callback, t) ==
    [ totalSteps |-> totalSteps, totalData |-> 0, currentStep |-> 0,
      currentData |-> 0, currentAction |-> "", lastUpdated |-> 0,
      startTime |-> t, timeRemaining |-> MAX_SAFE_INTEGER,
      callback |-> callback ]

\* mutant: the step offset is not taken off the current step
ProgressNoStepOffset(r) ==
    LET stepContribution == JsDiv(Whole(PROGRESS_MAX), Whole(r.totalSteps))
        basePercentage == JsMul(Whole(r.currentStep), stepContribution)
        currentStepPercentage ==
            JsMul(JsDiv(Whole(r.currentData), Whole(r.totalData)), stepContribution)
    IN  JsAdd(basePercentage, currentStepPercentage)

\* progress()
Progress(r) ==
    LET stepContribution == JsDiv(Whole(PROGRESS_MAX), Whole(r.totalSteps))
        basePercentage ==
            JsMul(Whole(r.currentStep - STEP_OFFSET), stepContribution)
        currentStepPercentage ==
            JsMul(JsDiv(Whole(r.currentData), Whole(r.totalData)), stepContribution)
    IN  JsAdd(basePercentage, currentStepPercentage)

\* the report handed to the callback
Report(r, timeRemaining) ==
    [ currentAction |-> r.currentAction, currentData |-> r.currentData,
      currentStep |-> r.currentStep, progress |-> Progress(r),
      timeRemaining |-> timeRemaining, totalData |-> r.totalData,
      totalSteps |-> r.totalSteps ]

\* setTotalData(data)
SetTotalData(r, data) == [r EXCEPT !.totalData = data, !.currentData = 0]

\* mutant: the throttle lets a report through one millisecond early
ThrottledOneEarly(r, currentTime) ==
    currentTime - r.lastUpdated < UPDATE_INTERVAL - 1

\* currentTime - this.lastUpdated < UPDATE_INTERVAL
Throttled(r, currentTime) == currentTime - r.lastUpdated < UPDATE_INTERVAL

\* updateData(data) at the time currentTime: the session afterwards and the
\* reports handed to the callback
UpdateData(r, data, currentTime) ==
    LET counted == [r EXCEPT !.currentData = r.currentData + data]
    IN  IF ~r.callback \/ Throttled(counted, currentTime)
        THEN [session |-> counted, reports |-> <<>>]
        ELSE LET elapsedTime == currentTime - counted.startTime
                 progress == Progress(counted)
                 timePerPercent == JsDiv(Whole(elapsedTime), progress)
                 timeRemaining ==
                     JsMul(timePerPercent, JsSub(Whole(PROGRESS_MAX), progress))
                 after == [counted EXCEPT !.lastUpdated = currentTime,
                                          !.timeRemaining = timeRemaining]
             IN  [session |-> after,
                  reports |-> <<Report(after, after.timeRemaining)>>]

\* mutant: advance skips a step
AdvanceByTwo(r, actionName) ==
    [r EXCEPT !.currentAction = actionName,
              !.currentStep = r.currentStep + STEP_OFFSET + STEP_OFFSET,
              !.currentData = 0]

\* mutant: advance leaves the byte counter as it is
AdvanceKeepsData(r, actionName) ==
    [r EXCEPT !.currentAction = actionName,
              !.currentStep = r.currentStep + STEP_OFFSET]

\* advance(actionName)
Advance(r, actionName) ==
    [r EXCEPT !.currentAction = actionName,
              !.currentStep = r.currentStep + STEP_OFFSET,
              !.currentData = 0]

\* mutant: complete() is held back by the throttle like updateData
CompleteThrottled(r, currentTime) ==
    LET done == [r EXCEPT !.currentStep = r.totalSteps,
                          !.currentData = r.totalData]
    IN  [session |-> done,
         reports |-> IF r.callback /\ ~Throttled(r, currentTime)
                     THEN <<Report(done, Whole(0))>> ELSE <<>>]

\* mutant: complete() calls the callback twice
CompleteTwice(r, currentTime) ==
    LET done == [r EXCEPT !.currentStep = r.totalSteps,
                          !.currentData = r.totalData]
    IN  [session |-> done,
         reports |-> IF r.callback
                     THEN <<Report(done, Whole(0)), Report(done, Whole(0))>>
                     ELSE <<>>]

\* complete()
Complete(r, currentTime) ==
    LET done == [r EXCEPT !.currentStep = r.totalSteps,
                          !.currentData = r.totalData]
    IN  [session |-> done,
         reports |-> IF r.callback THEN <<Report(done, Whole(0))>> ELSE <<>>]


(***************************************************************************)
(* The state.                                                              *)
(***************************************************************************)
VARIABLES
    sourceDir,    \* the directory at options.sourceDirectory
    targetFile,   \* the file at options.targetFile (the container)
    outDir,       \* the directory at extractGame's targetDirectory
    c,            \* the create call: its position, options and locals
    csignal,      \* the AbortSignal given to create
    handle,       \* the CLBGFile returned by fromFile
    tampered,     \* what another party changed after create ("none" if nothing)
    e,            \* the extractGame call: its position and locals
    esignal,      \* the AbortSignal given to extractGame
    hc,           \* a Header under encode / decode (the codec on its own)
    mc,           \* a Metadata under encode / decode (the codec on its own)
    pr,           \* the ProgressReporter session
    cb,           \* the reports delivered to the session's callback, in order
    now,          \* what new Date().getTime() returns
    drv,          \* the caller of the session: its position and locals
    gh            \* a generateHash call: its reader, position and result

\* the container, its operations and their surroundings
containerVars == <<sourceDir, targetFile, outDir, c, csignal, handle, tampered,
                   e, esignal>>

\* the Metadata codec, the progress session and generateHash on their own
unitVars == <<mc, pr, cb, now, drv, gh>>

vars == <<containerVars, hc, unitVars>>

\* what a path may hold when create is called
SourceDirs ==
    {NoDir} \cup { Dir(en) : en \in UNION { [S -> Contents] : S \in SUBSET Names } }

\* what options.sourceDirectory may hold: nothing, a directory, or a file
SourcePaths == SourceDirs \cup {FileAtTarget}

\* a file that is at the target path before create is called: longer than
\* every container the model writes, and no byte of it is a container's
OldFile ==
    File([i \in 1..(HEADER_SIZE + MaxMetaLen + MaxCoverLen
                      + Cardinality(Names) * (2 + MaxContentLen) + 4) |-> 3])

\* options.coverFile: a Buffer, or a path that holds a file or nothing
CoverBlobs == UNION { [1..n -> {9}] : n \in 0..MaxCoverLen }

CoverFiles ==
    { [kind |-> "buffer", exists |-> TRUE, bytes |-> b] : b \in CoverBlobs }
        \cup { [kind |-> "path", exists |-> TRUE, bytes |-> b] : b \in CoverBlobs }
        \cup { [kind |-> "path", exists |-> FALSE, bytes |-> <<>>],
               [kind |-> "path", exists |-> TRUE, entries |-> EmptyEntries] }

\* options.metadata.toBytes(): the metadata block, an opening brace and
\* closing bytes (the Metadata codec is not part of the container model)
MetaBlocks ==
    { [i \in 1..n |-> IF i = 1 THEN 123 ELSE 125] : n \in 1..MaxMetaLen }

NoSignal == [aborted |-> FALSE, at |-> "never"]

NoHeader == NewHeader([ version |-> Undefined, metadataOffset |-> Undefined,
                        metadataLength |-> Undefined, coverOffset |-> Undefined,
                        coverLength |-> Undefined, archiveOffset |-> Undefined,
                        archiveHash |-> UndefinedBuffer ])

CreateIdle ==
    [ pc |-> "idle", existed |-> FALSE, overwrite |-> FALSE,
      disableCompression |-> FALSE, coverFound |-> FALSE,
      metadata |-> <<>>, cover |-> <<>>,
      header |-> NoHeader, opened |-> FALSE, queue |-> <<>>, pack |-> <<>>,
      hash |-> DigestInit, result |-> "none" ]

NoHandle == [open |-> FALSE, result |-> "none", header |-> NoHeader,
             metadata |-> <<>>, cover |-> <<>>]

ExtractIdle ==
    [ pc |-> "idle", dirAtCall |-> NoDir, hash |-> DigestInit, pos |-> 0,
      isCompressed |-> FALSE, progPos |-> 0, progressCompleted |-> FALSE,
      decPos |-> 0, fed |-> <<>>, unpacked |-> FALSE, result |-> "none" ]

HcIdle == [pc |-> "idle", h |-> NoHeader, bytes |-> <<>>, decoded |-> NoHeader,
           again |-> <<>>]

McIdle == [pc |-> "idle", m |-> NoMetadata, absent |-> {}, bytes |-> <<>>,
           decoded |-> NoMetadata, result |-> "none"]

\* no ProgressReporter constructed
NoReporter ==
    [ totalSteps |-> 0, totalData |-> 0, currentStep |-> 0, currentData |-> 0,
      currentAction |-> "", lastUpdated |-> 0, startTime |-> 0,
      timeRemaining |-> MAX_SAFE_INTEGER, callback |-> FALSE ]

DrvIdle == [pc |-> "idle", op |-> "none", last |-> "none", calls |-> 0,
            onProgress |-> FALSE, totalSize |-> 0, fileSize |-> 0, archiveSize |-> 0, sent |-> 0]

GhIdle == [pc |-> "idle", isReadStream |-> FALSE, withReporter |-> FALSE,
           content |-> <<>>, cuts |-> {}, fileSize |-> 0, pos |-> 0,
           hash |-> DigestInit, before |-> NoReporter, result |-> "none",
           digest |-> <<>>]

\* the first reading of the clock, in milliseconds since the epoch (it is
\* at least UPDATE_INTERVAL: the epoch is long past)
FirstReading == 1000

\* the callback is called with the reports: they are appended to the record
\* of what it has received, with the time and the method that reported
Deliver(reports, by) ==
    cb \o [i \in 1..Len(reports) |->
              [by |-> by, at |-> now, report |-> reports[i]]]

RECURSIVE SumOfSizes(_, _)
SumOfSizes(entries, names) ==
    IF names = {} THEN 0
    ELSE LET n == MinOf(names)
         IN  Len(entries[n]) + SumOfSizes(entries, names \ {n})

\* getTotalSize(directoryPath): the sizes of the files, added up
GetTotalSize(dir) == SumOfSizes(dir.entries, DOMAIN dir.entries)

\* totalSteps of the session of create and of extractGame
CREATE_TOTAL_STEPS == 1
EXTRACT_TOTAL_STEPS == 2

\* statSync(path).size
FileSize(file) == Len(file.bytes)

\* no session is under way and the clock shows its first reading; the
\* caller of create and extractGame passes an onProgress callback or none
SessionIdle(onProgress) ==
    /\ mc = McIdle
    /\ pr = NoReporter
    /\ cb = <<>>
    /\ now = FirstReading
    /\ drv = [DrvIdle EXCEPT !.onProgress = onProgress]
    /\ gh = GhIdle

\* nothing but the container is in use
UnitsIdle ==
    /\ mc = McIdle
    /\ pr = NoReporter
    /\ cb = <<>>
    /\ now = 0
    /\ drv = DrvIdle
    /\ gh = GhIdle

Init ==
    /\ sourceDir \in SourcePaths
    /\ targetFile \in {NoFile, OldFile}
    /\ outDir = NoDir
    /\ c = CreateIdle
    /\ csignal = NoSignal
    /\ handle = NoHandle
    /\ tampered = "none"
    /\ e = ExtractIdle
    /\ esignal = NoSignal
    /\ hc = HcIdle
    /\ SessionIdle(FALSE)

(***************************************************************************)
(* CLBGFile.create                                                         *)
(***************************************************************************)
\* existsSync(options.targetFile) && !options.overwrite
TargetExistsRejected(file, overwrite) == file.exists /\ ~overwrite

\* mutant: the file is opened without truncation (flags "a")
OpenForAppend(file) == IF file.exists THEN file ELSE File(<<>>)

\* createWriteStream(options.targetFile): flags "w" create or truncate
OpenForWrite(file) == File(<<>>)

\* one write of the target stream: the bytes go to the end of the file
AppendTo(file, bytes) == File(file.bytes \o bytes)

\* mutant: the digest is started afresh for every chunk
HashOfLastChunk(h, chunk) == DigestUpdate(DigestInit, chunk)

\* hash.update(chunk) in the "data" listener of the compression stream
HashAfterChunk(h, chunk) == DigestUpdate(h, chunk)

\* mutant: the header is written at the offset of the digest field
PatchHeaderAtHashOffset(file, header) ==
    File(CopyInto(file.bytes, HeaderToBytes(header), ARCHIVE_HASH))

\* targetFile.write(header.toBytes(), HEADER_START, HEADER_SIZE, HEADER_START)
PatchHeader(file, header) ==
    File(CopyInto(file.bytes,
                  Slice(HeaderToBytes(header), HEADER_START,
                        HEADER_START + HEADER_SIZE),
                  HEADER_START))

Settle(call, result) == [call EXCEPT !.pc = "settled", !.result = result]

\* create, from the call to the start of the pipeline: the target-exists
\* gate, the progress session (advanced to "packing"), the source and cover
\* checks, the header with the placeholder digest, the three writes queued
\* on the target stream and the session's total
\* mutant: the write stream is opened before the paths are checked, which
\* leaves an empty file at the target
TargetAfterOpen(file, rejected) == IF rejected THEN File(<<>>) ELSE file

\* the target path after the argument checks of create: nothing has
\* touched it
TargetAfterChecks(file, rejected) == file

\* checkPathExists(sourceDirectory, "directory"), then, when coverFile is a
\* string, checkPathExists(coverFile, "file"): the first error, or "ok"
CreatePathCheck(coverFile) ==
    IF CheckPathExists(sourceDir, "directory") /= "ok"
    THEN CheckPathExists(sourceDir, "directory")
    ELSE IF coverFile.kind = "path"
    THEN CheckPathExists(coverFile, "file")
    ELSE "ok"

CreateCall(coverFile, metadata, overwrite, disableCompression, onProgress) ==
    /\ c.pc = "idle"
    /\ LET called == [c EXCEPT !.existed = targetFile.exists,
                               !.overwrite = overwrite,
                               !.disableCompression = disableCompression,
                               !.coverFound =
                                   \/ coverFile.kind /= "path"
                                   \/ CheckPathExists(coverFile, "file") = "ok",
                               !.metadata = metadata]
           header == HeaderFromData(metadata, coverFile.bytes,
                                    Zeros(DEFAULT_ZERO))
       IN  c' = IF TargetExistsRejected(targetFile, overwrite)
                THEN Settle(called, "TargetExists")
                ELSE IF CreatePathCheck(coverFile) /= "ok"
                THEN Settle(called, CreatePathCheck(coverFile))
                ELSE [called EXCEPT
                         !.pc = "streaming",
                         !.cover = coverFile.bytes,
                         !.header = header,
                         !.queue = <<HeaderToBytes(header), metadata,
                                     coverFile.bytes>>,
                         !.pack = Pack(sourceDir.entries, disableCompression),
                         !.hash = DigestInit]
    /\ LET session == Advance(NewReporter(CREATE_TOTAL_STEPS, onProgress, now),
                              "packing")
       IN  pr' = IF TargetExistsRejected(targetFile, overwrite) THEN pr
                 ELSE IF CreatePathCheck(coverFile) /= "ok" THEN session
                 ELSE SetTotalData(session, GetTotalSize(sourceDir))
    /\ targetFile' =
           TargetAfterChecks(targetFile,
                             /\ ~TargetExistsRejected(targetFile, overwrite)
                             /\ CreatePathCheck(coverFile) /= "ok")
    /\ cb' = <<>>
    /\ UNCHANGED <<sourceDir, outDir, csignal, handle, tampered,
                   e, esignal, hc, mc, now, drv, gh>>

\* the target stream opens its file
CreateOpenTarget ==
    /\ c.pc = "streaming"
    /\ ~c.opened
    /\ targetFile' = OpenForWrite(targetFile)
    /\ c' = [c EXCEPT !.opened = TRUE]
    /\ UNCHANGED <<sourceDir, outDir, csignal, handle, tampered, e, esignal, hc, unitVars>>

\* the target stream writes the buffer at the head of its queue
CreateWrite ==
    /\ c.pc = "streaming"
    /\ c.opened
    /\ ~csignal.aborted
    /\ c.queue /= <<>>
    /\ targetFile' = AppendTo(targetFile, Head(c.queue))
    /\ c' = [c EXCEPT !.queue = Tail(c.queue)]
    /\ UNCHANGED <<sourceDir, outDir, csignal, handle, tampered, e, esignal, hc, unitVars>>

\* the compression stream emits a chunk: the "data" listener feeds the
\* digest and the session, and the pipeline hands the chunk to the target
\* stream
CreatePackData ==
    /\ c.pc = "streaming"
    /\ ~csignal.aborted
    /\ c.pack /= <<>>
    /\ LET chunk == Slice(c.pack, 0, ChunkLen)
           r == UpdateData(pr, Len(chunk), now)
       IN  /\ c' = [c EXCEPT !.hash = HashAfterChunk(c.hash, chunk),
                             !.queue = Append(c.queue, chunk),
                             !.pack = From(c.pack, ChunkLen)]
           /\ pr' = r.session
           /\ cb' = Deliver(r.reports, "updateData")
    /\ UNCHANGED <<sourceDir, targetFile, outDir, csignal, handle, tampered,
                   e, esignal, hc, mc, now, drv, gh>>

\* await pipeline(...) resolves: the compression stream has ended and the
\* target stream has written everything; the file is reopened "r+"
CreatePipelineDone ==
    /\ c.pc = "streaming"
    /\ ~csignal.aborted
    /\ c.opened
    /\ c.pack = <<>>
    /\ c.queue = <<>>
    /\ c' = [c EXCEPT !.pc = "patching"]
    /\ UNCHANGED <<sourceDir, targetFile, outDir, csignal, handle, tampered,
                   e, esignal, hc, unitVars>>

\* the signal is aborted while the pipeline runs: the pipeline rejects
CreateAborted ==
    /\ c.pc = "streaming"
    /\ csignal.aborted
    /\ c' = Settle(c, "AbortError")
    /\ UNCHANGED <<sourceDir, targetFile, outDir, csignal, handle, tampered,
                   e, esignal, hc, unitVars>>

\* the digest is taken, the header is written over the first 64 bytes of
\* the file, progressReporter.complete(), and create resolves with the
\* handle
CreatePatch ==
    /\ c.pc = "patching"
    /\ LET header == [c.header EXCEPT !.archiveHash = DigestFinal(c.hash)]
           r == Complete(pr, now)
       IN  /\ targetFile' = PatchHeader(targetFile, header)
           /\ c' = Settle([c EXCEPT !.header = header], "ok")
           /\ pr' = r.session
           /\ cb' = Deliver(r.reports, "complete")
    /\ UNCHANGED <<sourceDir, outDir, csignal, handle, tampered, e, esignal,
                   hc, mc, now, drv, gh>>

\* the caller aborts the signal given to create, before or during the call
AbortCreate ==
    /\ ~csignal.aborted
    /\ c.pc /= "settled"
    /\ csignal' = [aborted |-> TRUE, at |-> c.pc]
    /\ UNCHANGED <<sourceDir, targetFile, outDir, c, handle, tampered, e,
                   esignal, hc, unitVars>>

Create ==
    \/ \E coverFile \in CoverFiles, metadata \in MetaBlocks,
          overwrite \in BOOLEAN, disableCompression \in BOOLEAN :
            CreateCall(coverFile, metadata, overwrite, disableCompression,
                       drv.onProgress)
    \/ CreateOpenTarget
    \/ CreateWrite
    \/ CreatePackData
    \/ CreatePipelineDone
    \/ CreateAborted
    \/ CreatePatch
    \/ AbortCreate

(***************************************************************************)
(* CLBGFile.fromFile (open)                                                *)
(***************************************************************************)
\* fileHandle.read(buffer, 0, length, position) into Buffer.alloc(length):
\* what the file does not hold stays zero
ReadRange(bytes, position, length) ==
    CopyInto(Zeros(length), Slice(bytes, position, position + length), 0)

\* Header.fromFile(targetPath)
HeaderFromFile(file) ==
    HeaderFromBytes(ReadRange(file.bytes, HEADER_START, HEADER_SIZE))

\* JSON.parse accepts the block (a block cut short or padded with zero bytes
\* is no JSON)
JsonValid(block) == block \in MetaBlocks

\* mutant: the cover is read where the metadata block starts
GetCoverFromFileAtMetadata(file, header) ==
    LET usableHeader == IF header /= <<>> THEN header[1]
                        ELSE HeaderFromFile(file)
    IN  Base64(ReadRange(file.bytes, usableHeader.metadataOffset,
                         usableHeader.coverLength))

\* getCoverFromFile(targetPath, header?): the cover as base64 text; the
\* header is read from the file when none is given
GetCoverFromFile(file, header) ==
    LET usableHeader == IF header /= <<>> THEN header[1]
                        ELSE HeaderFromFile(file)
    IN  Base64(ReadRange(file.bytes, usableHeader.coverOffset,
                         usableHeader.coverLength))

\* the CLBGFile that create returns
CreatedHandle(call) ==
    [ open |-> TRUE, result |-> "ok", header |-> call.header,
      metadata |-> call.metadata, cover |-> Base64(call.cover) ]

\* mutant: fromFile compares the digest of the archive region with the
\* header's and rejects the file when they differ
FromFileVerified(file) ==
    IF CheckPathExists(file, "file") /= "ok"
    THEN [NoHandle EXCEPT !.result = CheckPathExists(file, "file")]
    ELSE LET header == HeaderFromFile(file)
         IN  IF header.metadataLength > Len(file.bytes)
             THEN [NoHandle EXCEPT !.result = "MalformedMetadata"]
             ELSE LET block == ReadRange(file.bytes, header.metadataOffset,
                                         header.metadataLength)
                  IN  IF ~JsonValid(block)
                      THEN [NoHandle EXCEPT !.result = "MalformedMetadata"]
                      ELSE IF DigestOf(From(file.bytes, header.archiveOffset))
                                  /= header.archiveHash
                      THEN [NoHandle EXCEPT !.result = "IntegrityMismatch"]
                      ELSE [ open |-> TRUE, result |-> "ok",
                             header |-> header, metadata |-> block,
                             cover |-> GetCoverFromFile(file, <<header>>) ]

\* fromFile(targetPath): the handle, or the error it throws
FromFile(file) ==
    IF CheckPathExists(file, "file") /= "ok"
    THEN [NoHandle EXCEPT !.result = CheckPathExists(file, "file")]
    ELSE LET header == HeaderFromFile(file)
         IN  IF header.metadataLength > Len(file.bytes)
             THEN [NoHandle EXCEPT !.result = "MalformedMetadata"]
             ELSE LET block == ReadRange(file.bytes, header.metadataOffset,
                                         header.metadataLength)
                  IN  IF ~JsonValid(block)
                      THEN [NoHandle EXCEPT !.result = "MalformedMetadata"]
                      ELSE [ open |-> TRUE, result |-> "ok",
                             header |-> header, metadata |-> block,
                             cover |-> GetCoverFromFile(file, <<header>>) ]

\* the caller opens the target file once create has settled (a cancelled
\* create leaves a partial file that the caller removes, not opens)
Open ==
    /\ c.pc = "settled"
    /\ c.result /= "AbortError"
    /\ handle.result = "none"
    /\ handle' = FromFile(targetFile)
    /\ UNCHANGED <<sourceDir, targetFile, outDir, c, csignal, tampered, e,
                   esignal, hc, unitVars>>

(***************************************************************************)
(* Another party, between open and extractGame: one bit of the archive     *)
(* region of the file is flipped, or the handle's digest is replaced       *)
(* (header.archiveHash is a public field).                                 *)
(***************************************************************************)
Pow2(k) == IF k = 0 THEN 1 ELSE IF k = 1 THEN 2 ELSE IF k = 2 THEN 4
           ELSE IF k = 3 THEN 8 ELSE IF k = 4 THEN 16 ELSE IF k = 5 THEN 32
           ELSE IF k = 6 THEN 64 ELSE 128

FlipBit(b, k) == IF (b \div Pow2(k)) % 2 = 0 THEN b + Pow2(k) ELSE b - Pow2(k)

TamperBits == {0, 7}

TamperArchive(i, k) ==
    /\ handle.open
    /\ e.pc = "idle"
    /\ tampered = "none"
    /\ i > handle.header.archiveOffset
    /\ targetFile' = File([targetFile.bytes EXCEPT ![i] = FlipBit(@, k)])
    /\ tampered' = "archive"
    /\ UNCHANGED <<sourceDir, outDir, c, csignal, handle, e, esignal, hc, unitVars>>

TamperDigest ==
    /\ handle.open
    /\ e.pc = "idle"
    /\ tampered = "none"
    /\ handle' = [handle EXCEPT !.header.archiveHash = Zeros(HASH_SIZE)]
    /\ tampered' = "digest"
    /\ UNCHANGED <<sourceDir, targetFile, outDir, c, csignal, e, esignal, hc, unitVars>>

(***************************************************************************)
(* CLBGFile.extractGame                                                    *)
(***************************************************************************)
\* the directories extractGame may be pointed at
TargetDirs ==
    {NoDir, FileAtTarget, Dir(EmptyEntries), Dir([n \in {65} |-> <<1>>])}

EMPTY_DIR_LENGTH == 0

\* mutant: a directory with one entry passes for empty
DirNotEmptyOffByOne(dir) ==
    Cardinality(DOMAIN dir.entries) > EMPTY_DIR_LENGTH + 1

\* mutant: every directory passes for empty
DirNeverFull(dir) == FALSE

\* readdirSync(targetDirectory).length > EMPTY_DIR_LENGTH
DirNotEmpty(dir) == Cardinality(DOMAIN dir.entries) > EMPTY_DIR_LENGTH

\* createReadStream(this.filePath, {start: this.header.archiveOffset}):
\* the bytes the stream delivers
ArchiveRegion(file, header) == From(file.bytes, header.archiveOffset)

\* mutant: the buffers are compared by length only
ArchiveHashValidLengthOnly(h, header) ==
    Len(DigestFinal(h)) = Len(header.archiveHash)

\* archiveHash.equals(this.header.archiveHash)
ArchiveHashValid(h, header) == DigestFinal(h) = header.archiveHash

\* mutant: the negation of the gate is lost
HashGateRejectsValid(valid) == valid

\* if (!(await this.validateArchiveHash(...))) throw
HashGateRejects(valid) == ~valid

MAGIC_NUMBER_SIZE == 2

\* mutant: both magic bytes are compared with the first magic number
IsCompressedSameByte(region) ==
    LET magicNumber == Slice(region, 0, MAGIC_NUMBER_SIZE + 1)
    IN  /\ Len(magicNumber) >= 2
        /\ magicNumber[1] = GZIP_MAGIC_1
        /\ magicNumber[2] = GZIP_MAGIC_1

\* mutant: only the first magic number is looked for
IsCompressedFirstByte(region) ==
    LET magicNumber == Slice(region, 0, MAGIC_NUMBER_SIZE + 1)
    IN  /\ Len(magicNumber) >= 1
        /\ magicNumber[1] = GZIP_MAGIC_1

\* isCompressed: the first chunk of the stream over
\* [archiveOffset, archiveOffset + MAGIC_NUMBER_SIZE] (end inclusive)
IsCompressed(region) ==
    LET magicNumber == Slice(region, 0, MAGIC_NUMBER_SIZE + 1)
    IN  /\ Len(magicNumber) >= 2
        /\ magicNumber[1] = GZIP_MAGIC_1
        /\ magicNumber[2] = GZIP_MAGIC_2

\* extractGame up to the start of the hash pass: the progress session, the
\* target checks, then validateArchiveHash opens its stream over the archive
\* region and generateHash advances the session to "hashing"
ExtractCall(dir, onProgress) ==
    /\ handle.open
    /\ e.pc = "idle"
    /\ outDir' = dir
    /\ LET called == [e EXCEPT !.dirAtCall = dir]
           session == NewReporter(EXTRACT_TOTAL_STEPS, onProgress, now)
           rejected == \/ CheckPathExists(dir, "directory") /= "ok"
                       \/ DirNotEmpty(dir)
       IN  /\ e' = IF CheckPathExists(dir, "directory") /= "ok"
                   THEN Settle(called, CheckPathExists(dir, "directory"))
                   ELSE IF DirNotEmpty(dir)
                   THEN Settle(called, "TargetDirectoryNotEmpty")
                   ELSE [called EXCEPT !.pc = "hashing", !.hash = DigestInit,
                                       !.pos = 0]
           /\ pr' = IF rejected THEN session
                    ELSE SetTotalData(Advance(session, "hashing"),
                                      FileSize(targetFile))
    /\ cb' = <<>>
    /\ UNCHANGED <<sourceDir, targetFile, c, csignal, handle, tampered,
                   esignal, hc, mc, now, drv, gh>>

\* generateHash: a chunk of the archive region is counted by the session
\* and goes into the digest
ExtractHashData ==
    /\ e.pc = "hashing"
    /\ ~esignal.aborted
    /\ LET region == ArchiveRegion(targetFile, handle.header)
           chunk == Slice(region, e.pos, e.pos + ChunkLen)
           r == UpdateData(pr, Len(chunk), now)
       IN  /\ e.pos < Len(region)
           /\ e' = [e EXCEPT !.hash = DigestUpdate(e.hash, chunk),
                             !.pos = e.pos + Len(chunk)]
           /\ pr' = r.session
           /\ cb' = Deliver(r.reports, "updateData")
    /\ UNCHANGED <<sourceDir, targetFile, outDir, c, csignal, handle,
                   tampered, esignal, hc, mc, now, drv, gh>>

\* the stream ends: the digest is compared with the header's; on a match
\* extractArchiveToDirectory starts (the session is advanced to
\* "decompressing" and isCompressed opens its stream), otherwise extractGame
\* throws
ExtractHashEnd ==
    /\ e.pc = "hashing"
    /\ ~esignal.aborted
    /\ e.pos >= Len(ArchiveRegion(targetFile, handle.header))
    /\ IF HashGateRejects(ArchiveHashValid(e.hash, handle.header))
       THEN /\ e' = Settle(e, "IntegrityMismatch")
            /\ pr' = pr
       ELSE /\ e' = [e EXCEPT !.pc = "sniffing"]
            /\ pr' = SetTotalData(Advance(pr, "decompressing"),
                                  FileSize(targetFile))
    /\ UNCHANGED <<sourceDir, targetFile, outDir, c, csignal, handle,
                   tampered, esignal, hc, mc, cb, now, drv, gh>>

\* the signal is aborted during the hash pass: the stream errors and
\* generateHash rejects
ExtractHashAborted ==
    /\ e.pc = "hashing"
    /\ esignal.aborted
    /\ e' = Settle(e, "AbortError")
    /\ UNCHANGED <<sourceDir, targetFile, outDir, c, csignal, handle,
                   tampered, esignal, hc, unitVars>>

\* isCompressed resolves with the first chunk (it waits for one), then the
\* progress stream and the decompression stream are opened
ExtractSniff ==
    /\ e.pc = "sniffing"
    /\ LET region == ArchiveRegion(targetFile, handle.header)
       IN  /\ region /= <<>>
           /\ e' = [e EXCEPT !.pc = "unpacking",
                             !.isCompressed = IsCompressed(region),
                             !.progPos = 0, !.progressCompleted = FALSE,
                             !.decPos = 0, !.fed = <<>>, !.unpacked = FALSE]
    /\ UNCHANGED <<sourceDir, targetFile, outDir, c, csignal, handle,
                   tampered, esignal, hc, unitVars>>

\* the progress stream is read during the unpack phase, and on after the
\* codec has failed: the rejection of Promise.all does not close it
ShadowReading ==
    \/ e.pc = "unpacking"
    \/ e.pc = "settled" /\ e.result = "CodecFailure"

\* the progress stream delivers a chunk: updateData(chunk.length)
ExtractProgressData ==
    /\ ShadowReading
    /\ ~esignal.aborted
    /\ ~e.progressCompleted
    /\ LET region == ArchiveRegion(targetFile, handle.header)
           end == Min(e.progPos + ChunkLen, Len(region))
           r == UpdateData(pr, end - e.progPos, now)
       IN  /\ e.progPos < Len(region)
           /\ e' = [e EXCEPT !.progPos = end]
           /\ pr' = r.session
           /\ cb' = Deliver(r.reports, "updateData")
    /\ UNCHANGED <<sourceDir, targetFile, outDir, c, csignal, handle,
                   tampered, esignal, hc, mc, now, drv, gh>>

\* the progress stream ends, or errors because the signal is aborted
ExtractProgressDone ==
    /\ ShadowReading
    /\ ~e.progressCompleted
    /\ \/ esignal.aborted
       \/ e.progPos >= Len(ArchiveRegion(targetFile, handle.header))
    /\ e' = [e EXCEPT !.progressCompleted = TRUE]
    /\ UNCHANGED <<sourceDir, targetFile, outDir, c, csignal, handle,
                   tampered, esignal, hc, unitVars>>

\* the decompression stream hands a chunk to the codec
ExtractFeed ==
    /\ e.pc = "unpacking"
    /\ ~esignal.aborted
    /\ ~e.unpacked
    /\ LET region == ArchiveRegion(targetFile, handle.header)
           chunk == Slice(region, e.decPos, e.decPos + ChunkLen)
       IN  /\ e.decPos < Len(region)
           /\ e' = [e EXCEPT !.fed = e.fed \o chunk,
                             !.decPos = e.decPos + Len(chunk)]
    /\ UNCHANGED <<sourceDir, targetFile, outDir, c, csignal, handle,
                   tampered, esignal, hc, unitVars>>

\* the decompression stream ends: the codec has written the entries into
\* the target directory, or it fails and extractGame rejects
ExtractUnpackEnd ==
    /\ e.pc = "unpacking"
    /\ ~esignal.aborted
    /\ ~e.unpacked
    /\ e.decPos >= Len(ArchiveRegion(targetFile, handle.header))
    /\ LET r == Unpack(e.fed, e.isCompressed)
       IN  IF r.ok
           THEN /\ outDir' = Dir(Merge(outDir.entries, r.entries))
                /\ e' = [e EXCEPT !.unpacked = TRUE]
           ELSE /\ outDir' = outDir
                /\ e' = Settle(e, "CodecFailure")
    /\ UNCHANGED <<sourceDir, targetFile, c, csignal, handle, tampered,
                   esignal, hc, unitVars>>

\* the signal is aborted while the decompression stream is read: the
\* stream errors, the codec rejects
ExtractUnpackAborted ==
    /\ e.pc = "unpacking"
    /\ esignal.aborted
    /\ ~e.unpacked
    /\ e' = Settle(e, "AbortError")
    /\ UNCHANGED <<sourceDir, targetFile, outDir, c, csignal, handle,
                   tampered, esignal, hc, unitVars>>

\* mutant: the first of the two to finish ends the phase (Promise.race)
PromiseRace(progressCompleted, unpacked) == progressCompleted \/ unpacked

\* Promise.all([progressPromise, performDecompression()]) resolves: the poll
\* has seen progressCompleted and the codec has resolved
PromiseAll(progressCompleted, unpacked) == progressCompleted /\ unpacked

\* Promise.all resolves, progressReporter.complete(), extractGame resolves
ExtractJoin ==
    /\ e.pc = "unpacking"
    /\ PromiseAll(e.progressCompleted, e.unpacked)
    /\ e' = Settle(e, "ok")
    /\ LET r == Complete(pr, now)
       IN  /\ pr' = r.session
           /\ cb' = Deliver(r.reports, "complete")
    /\ UNCHANGED <<sourceDir, targetFile, outDir, c, csignal, handle,
                   tampered, esignal, hc, mc, now, drv, gh>>

\* the caller aborts the signal given to extractGame, before or during
\* the call
AbortExtract ==
    /\ handle.open
    /\ ~esignal.aborted
    /\ e.pc /= "settled"
    /\ esignal' = [aborted |-> TRUE, at |-> e.pc]
    /\ UNCHANGED <<sourceDir, targetFile, outDir, c, csignal, handle,
                   tampered, e, hc, unitVars>>

Tamper ==
    \/ \E i \in 1..Len(targetFile.bytes), k \in TamperBits : TamperArchive(i, k)
    \/ TamperDigest

Extract ==
    \/ \E dir \in TargetDirs : ExtractCall(dir, drv.onProgress)
    \/ ExtractHashData
    \/ ExtractHashEnd
    \/ ExtractHashAborted
    \/ ExtractSniff
    \/ ExtractProgressData
    \/ ExtractProgressDone
    \/ ExtractFeed
    \/ ExtractUnpackEnd
    \/ ExtractUnpackAborted
    \/ ExtractJoin
    \/ AbortExtract

Next == Create \/ Open \/ Tamper \/ Extract

Spec == Init /\ [][Next]_vars

(***************************************************************************)
(* Files from elsewhere: a caller opens whatever is at a path (a container *)
(* of another writer, a damaged or foreign file, a directory, nothing) and *)
(* extracts it.                                                            *)
(***************************************************************************)
\* the first eight bytes of a file: the signature, or that of a foreign file
Signatures == {SIGNATURE, <<80, 75, 3, 4, 20, 0, 0, 0>>}

\* metadata regions: the blocks create writes, and one that is no JSON
FileMetaBlocks == MetaBlocks \cup {<<3>>}

\* the directories packed into the archive regions
FileDirs ==
    {Dir(EmptyEntries), Dir([n \in Names |-> [i \in 1..MaxContentLen |-> 7]])}

\* archive regions: packed directories, an empty region, one byte, the gzip
\* magic number with nothing behind it, and a tar stream cut short
ArchiveRegions ==
    { Pack(d.entries, disableCompression) :
          d \in FileDirs, disableCompression \in BOOLEAN }
        \cup { <<>>, <<GZIP_MAGIC_1>>, <<GZIP_MAGIC_1, GZIP_MAGIC_2>>,
               <<65, 9, 7>> }

\* a file laid out as create lays it out: header, metadata, cover, archive
ContainerFile(signature, metadata, cover, archiveHash, region) ==
    File(CopyInto(HeaderToBytes(HeaderFromData(metadata, cover, archiveHash)),
                  signature, HEADER_START)
             \o metadata \o cover \o region)

\* the files with that layout: the digest in the header is the one of the
\* archive region, or another one
ContainerFiles ==
    { ContainerFile(signature, metadata, cover,
                    IF matching THEN DigestOf(region) ELSE Zeros(HASH_SIZE),
                    region) :
          signature \in Signatures, metadata \in FileMetaBlocks,
          cover \in CoverBlobs, matching \in BOOLEAN,
          region \in ArchiveRegions }

\* what the path given to fromFile may hold
PathsToOpen ==
    ContainerFiles \cup {NoFile, Dir(EmptyEntries), File(<<>>), File(<<1>>)}

InitFiles ==
    /\ sourceDir = NoDir
    /\ targetFile \in PathsToOpen
    /\ outDir = NoDir
    /\ c = CreateIdle
    /\ csignal = NoSignal
    /\ handle = NoHandle
    /\ tampered = "none"
    /\ e = ExtractIdle
    /\ esignal = NoSignal
    /\ hc = HcIdle
    /\ \E onProgress \in BOOLEAN : SessionIdle(onProgress)

\* the caller opens the path: CLBGFile.fromFile(targetPath)
OpenFile ==
    /\ c.pc = "idle"
    /\ handle.result = "none"
    /\ handle' = FromFile(targetFile)
    /\ UNCHANGED <<sourceDir, targetFile, outDir, c, csignal, tampered, e,
                   esignal, hc, unitVars>>

\* a step extractGame takes by itself, once it is called
ExtractStep ==
    \/ ExtractHashData
    \/ ExtractHashEnd
    \/ ExtractHashAborted
    \/ ExtractSniff
    \/ ExtractProgressData
    \/ ExtractProgressDone
    \/ ExtractFeed
    \/ ExtractUnpackEnd
    \/ ExtractUnpackAborted
    \/ ExtractJoin

\* time passes while extractGame runs
ExtractTick ==
    /\ e.pc \in {"hashing", "sniffing", "unpacking"}
    /\ drv.calls < MaxCalls
    /\ now' = now + UPDATE_INTERVAL
    /\ drv' = [drv EXCEPT !.calls = drv.calls + 1]
    /\ UNCHANGED <<containerVars, hc, mc, pr, cb, gh>>

NextFiles == OpenFile \/ Extract \/ ExtractTick

SpecFiles == InitFiles /\ [][NextFiles]_vars

\* create, open and extractGame as in Spec, called with an onProgress
\* callback
InitWatched ==
    /\ sourceDir \in SourcePaths
    /\ targetFile \in {NoFile, OldFile}
    /\ outDir = NoDir
    /\ c = CreateIdle
    /\ csignal = NoSignal
    /\ handle = NoHandle
    /\ tampered = "none"
    /\ e = ExtractIdle
    /\ esignal = NoSignal
    /\ hc = HcIdle
    /\ SessionIdle(TRUE)

SpecWatched == InitWatched /\ [][Next]_vars

\* containers with the signature, an empty cover and the digest of their
\* archive region in the header
IntactFiles ==
    { ContainerFile(SIGNATURE, metadata, <<>>, DigestOf(region), region) :
          metadata \in MetaBlocks, region \in ArchiveRegions }

InitIntact ==
    /\ sourceDir = NoDir
    /\ targetFile \in IntactFiles
    /\ outDir = NoDir
    /\ c = CreateIdle
    /\ csignal = NoSignal
    /\ handle = NoHandle
    /\ tampered = "none"
    /\ e = ExtractIdle
    /\ esignal = NoSignal
    /\ hc = HcIdle
    /\ SessionIdle(FALSE)

NextIntact == OpenFile \/ Extract

\* the streams deliver what they have, the codec terminates and the timers
\* fire: a step of extractGame that stays possible is taken
SpecFilesLive == InitIntact /\ [][NextIntact]_vars /\ WF_vars(ExtractStep)

\* another party writes an archive region into the file after the hash pass
\* has read it and before extractArchiveToDirectory opens its streams, which
\* read the path anew
Rewrite(region) ==
    /\ handle.open
    /\ e.pc = "sniffing"
    /\ tampered = "none"
    /\ region /= ArchiveRegion(targetFile, handle.header)
    /\ targetFile' = File(Slice(targetFile.bytes, 0, handle.header.archiveOffset)
                              \o region)
    /\ tampered' = "archive"
    /\ UNCHANGED <<sourceDir, outDir, c, csignal, handle, e, esignal, hc,
                   unitVars>>

NextShared == OpenFile \/ Extract \/ \E region \in ArchiveRegions : Rewrite(region)

\* an intact container is opened and extracted while another party has
\* write access to it
SpecShared == InitIntact /\ [][NextShared]_vars

(***************************************************************************)
(* The header codec on its own: a Header object (its fields are public and *)
(* assignable) is encoded, the bytes are decoded, the result is encoded    *)
(* again.                                                                  *)
(***************************************************************************)
\* uint32 values of the header's integer fields
U32Samples == {0, 1, 65601, 2147483647}

\* digests: the empty placeholder of Header.fromData, and 32-byte digests
DigestSamples ==
    {Zeros(DEFAULT_ZERO), Zeros(HASH_SIZE), [i \in 1..HASH_SIZE |-> (7 * i) % 256]}

Headers ==
    [ version : U32Samples, metadataOffset : U32Samples,
      metadataLength : U32Samples, coverOffset : U32Samples,
      coverLength : U32Samples, archiveOffset : U32Samples,
      archiveHash : DigestSamples ]

InitHeader ==
    /\ sourceDir = NoDir
    /\ targetFile = NoFile
    /\ outDir = NoDir
    /\ c = CreateIdle
    /\ csignal = NoSignal
    /\ handle = NoHandle
    /\ tampered = "none"
    /\ e = ExtractIdle
    /\ esignal = NoSignal
    /\ \E h \in Headers : hc = [HcIdle EXCEPT !.pc = "new", !.h = h]
    /\ UnitsIdle

\* bytes = h.toBytes()
HeaderEncode ==
    /\ hc.pc = "new"
    /\ hc' = [hc EXCEPT !.pc = "encoded", !.bytes = HeaderToBytes(hc.h)]
    /\ UNCHANGED <<sourceDir, targetFile, outDir, c, csignal, handle,
                   tampered, e, esignal, unitVars>>

\* decoded = Header.fromBytes(bytes)
HeaderDecode ==
    /\ hc.pc = "encoded"
    /\ hc' = [hc EXCEPT !.pc = "decoded", !.decoded = HeaderFromBytes(hc.bytes)]
    /\ UNCHANGED <<sourceDir, targetFile, outDir, c, csignal, handle,
                   tampered, e, esignal, unitVars>>

\* again = decoded.toBytes()
HeaderReencode ==
    /\ hc.pc = "decoded"
    /\ hc' = [hc EXCEPT !.pc = "reencoded", !.again = HeaderToBytes(hc.decoded)]
    /\ UNCHANGED <<sourceDir, targetFile, outDir, c, csignal, handle,
                   tampered, e, esignal, unitVars>>

NextHeader == HeaderEncode \/ HeaderDecode \/ HeaderReencode

SpecHeader == InitHeader /\ [][NextHeader]_vars

(***************************************************************************)
(* The Metadata codec on its own: a Metadata built by the constructor is   *)
(* encoded and the bytes are decoded.                                      *)
(***************************************************************************)
\* the container is not in use
ContainerIdle ==
    /\ sourceDir = NoDir
    /\ targetFile = NoFile
    /\ outDir = NoDir
    /\ c = CreateIdle
    /\ csignal = NoSignal
    /\ handle = NoHandle
    /\ tampered = "none"
    /\ e = ExtractIdle
    /\ esignal = NoSignal

\* characters of the texts: a quote, a backslash and a two-byte character
Chars == {34, 92, 233}

Strings == UNION { [1..n -> Chars] : n \in 0..MaxStrLen }

\* a longer text
TextSample == <<97, 92, 34, 233>>

TagLists ==
    {<<>>, <<Str(<<97>>), Str(<<>>)>>} \cup { <<Str(s)>> : s \in Strings }

\* the valid Metadata values looked at: what the constructor makes of options
\* whose optional fields are absent, empty, zero, false or set
Metadatas ==
    { NewMetadata([ igdbId |-> Num(10 * id), name |-> Str(name),
                    description |-> description, rating |-> rating,
                    developer |-> text, publisher |-> text,
                    releaseDate |-> text, genres |-> Arr(genres),
                    themes |-> tags, keywords |-> tags, server |-> server ]) :
        id \in {0, 123}, name \in Strings,
        description \in {Str(<<>>), Str(TextSample)},
        rating \in {JsUndefined, Num(0), Num(45)},
        text \in {JsUndefined, Str(TextSample)},
        genres \in TagLists,
        tags \in {Arr(<<>>), Arr(<<Str(TextSample), Str(TextSample)>>)},
        server \in {JsUndefined, Bool(FALSE), Bool(TRUE)} }

\* the fields the constructor has a default for, each with its wire key
OptionalFields ==
    { <<"description", KEY_DESCRIPTION>>, <<"rating", KEY_RATING>>,
      <<"developer", KEY_DEVELOPER>>, <<"publisher", KEY_PUBLISHER>>,
      <<"releaseDate", KEY_RELEASE_DATE>>, <<"genres", KEY_GENRES>>,
      <<"themes", KEY_THEMES>>, <<"keywords", KEY_KEYWORDS>>,
      <<"server", KEY_SERVER>> }

OptionalKeys == { f[2] : f \in OptionalFields }

\* new Metadata({igdbId, name}): no optional field is given
OnlyIdAndName(igdbId, name) ==
    NewMetadata([NoMetadata EXCEPT !.igdbId = igdbId, !.name = name])

\* what the optional keys hold on the wire when they are there
WireSample ==
    [ NoMetadata EXCEPT
        !.description = Str(TextSample), !.rating = Num(45),
        !.developer = Str(TextSample), !.publisher = Str(<<97>>),
        !.releaseDate = Str(TextSample), !.genres = Arr(<<Str(<<97>>)>>),
        !.themes = Arr(<<Str(TextSample)>>),
        !.keywords = Arr(<<Str(<<97>>), Str(<<>>)>>), !.server = Bool(TRUE) ]

\* the wire JSON of another writer: the object of m with the optional keys
\* of WireSample, the keys in absent left out
WireBytes(m, absent) ==
    LET full == [WireSample EXCEPT !.igdbId = m.igdbId, !.name = m.name]
    IN  Utf8Encode(ObjectText(SelectSeq(Members(full),
                                        LAMBDA member : member[1] \notin absent)))

\* a Metadata to encode and decode, or a Metadata built from igdbId and name
\* only and a wire JSON that lacks some optional keys
InitMetadata ==
    /\ ContainerIdle
    /\ hc = HcIdle
    /\ \/ \E m \in Metadatas : mc = [McIdle EXCEPT !.pc = "new", !.m = m]
       \/ \E name \in Strings, absent \in SUBSET OptionalKeys :
              LET m == OnlyIdAndName(Num(1230), Str(name))
              IN  mc = [McIdle EXCEPT !.pc = "wire", !.m = m,
                                      !.absent = absent,
                                      !.bytes = WireBytes(m, absent)]
    /\ pr = NoReporter
    /\ cb = <<>>
    /\ now = 0
    /\ drv = DrvIdle
    /\ gh = GhIdle

\* bytes = m.toBytes()
MetadataEncode ==
    /\ mc.pc = "new"
    /\ mc' = [mc EXCEPT !.pc = "encoded", !.bytes = MetadataToBytes(mc.m)]
    /\ UNCHANGED <<containerVars, hc, pr, cb, now, drv, gh>>

\* decoded = Metadata.fromBytes(bytes)
MetadataDecode ==
    /\ mc.pc = "encoded"
    /\ LET r == MetadataFromBytes(mc.bytes)
       IN  mc' = [mc EXCEPT !.pc = "decoded", !.decoded = r.metadata,
                            !.result = r.result]
    /\ UNCHANGED <<containerVars, hc, pr, cb, now, drv, gh>>

\* parsed = Metadata.fromBytes(wire)
MetadataParse ==
    /\ mc.pc = "wire"
    /\ LET r == MetadataFromBytes(mc.bytes)
       IN  mc' = [mc EXCEPT !.pc = "parsed", !.decoded = r.metadata,
                            !.result = r.result]
    /\ UNCHANGED <<containerVars, hc, pr, cb, now, drv, gh>>

NextMetadata == MetadataEncode \/ MetadataDecode \/ MetadataParse

SpecMetadata == InitMetadata /\ [][NextMetadata]_vars

(***************************************************************************)
(* The progress session on its own: a caller constructs a ProgressReporter *)
(* and calls its methods in any order while the clock moves on.            *)
(***************************************************************************)
\* by how much the clock moves on between two calls
ClockSteps == {UPDATE_INTERVAL - 1, UPDATE_INTERVAL}

\* arguments of setTotalData and updateData
DataTotals == {0, 200}
DataSteps == {0, 100}

ActionNames == {"test"}

\* a method of the session has been called
Called(method) == [drv EXCEPT !.last = method, !.calls = drv.calls + 1]

InitReporter ==
    /\ ContainerIdle
    /\ hc = HcIdle
    /\ mc = McIdle
    /\ gh = GhIdle
    /\ now = FirstReading
    /\ \E totalSteps \in 1..MaxSteps, callback \in BOOLEAN :
           pr = NewReporter(totalSteps, callback, now)
    /\ cb = <<>>
    /\ drv = [DrvIdle EXCEPT !.pc = "session"]

\* advance(actionName)
ReporterAdvance(actionName) ==
    /\ drv.pc = "session"
    /\ drv.calls < MaxCalls
    /\ pr' = Advance(pr, actionName)
    /\ drv' = Called("advance")
    /\ UNCHANGED <<containerVars, hc, mc, cb, now, gh>>

\* setTotalData(data)
ReporterSetTotalData(data) ==
    /\ drv.pc = "session"
    /\ drv.calls < MaxCalls
    /\ pr' = SetTotalData(pr, data)
    /\ drv' = Called("setTotalData")
    /\ UNCHANGED <<containerVars, hc, mc, cb, now, gh>>

\* updateData(data)
ReporterUpdateData(data) ==
    /\ drv.pc = "session"
    /\ drv.calls < MaxCalls
    /\ LET r == UpdateData(pr, data, now)
       IN  /\ pr' = r.session
           /\ cb' = Deliver(r.reports, "updateData")
    /\ drv' = Called("updateData")
    /\ UNCHANGED <<containerVars, hc, mc, now, gh>>

\* complete()
ReporterComplete ==
    /\ drv.pc = "session"
    /\ drv.calls < MaxCalls
    /\ LET r == Complete(pr, now)
       IN  /\ pr' = r.session
           /\ cb' = Deliver(r.reports, "complete")
    /\ drv' = Called("complete")
    /\ UNCHANGED <<containerVars, hc, mc, now, gh>>

\* time passes between two calls
ReporterTick(ms) ==
    /\ drv.pc = "session"
    /\ drv.calls < MaxCalls
    /\ now' = now + ms
    /\ drv' = Called("none")
    /\ UNCHANGED <<containerVars, hc, mc, pr, cb, gh>>

NextReporter ==
    \/ \E actionName \in ActionNames : ReporterAdvance(actionName)
    \/ \E data \in DataTotals : ReporterSetTotalData(data)
    \/ \E data \in DataSteps : ReporterUpdateData(data)
    \/ ReporterComplete
    \/ \E ms \in ClockSteps : ReporterTick(ms)

SpecReporter == InitReporter /\ [][NextReporter]_vars

(***************************************************************************)
(* The progress session of one operation: create and extractGame construct *)
(* a ProgressReporter and drive it with the sizes of what they stream,     *)
(* while the clock moves on.                                               *)
(***************************************************************************)
\* the operation is called with an onProgress callback or without one, on a
\* source directory (create) or on the container made of it (extractGame)
InitProgress ==
    /\ ContainerIdle
    /\ hc = HcIdle
    /\ mc = McIdle
    /\ gh = GhIdle
    /\ now = FirstReading
    /\ cb = <<>>
    /\ \E op \in {"create", "extractGame"}, source \in SourceDirs \ {NoDir},
          disableCompression \in BOOLEAN, cover \in CoverBlobs,
          metadata \in MetaBlocks, callback \in BOOLEAN :
           LET archiveSize == Len(Pack(source.entries, disableCompression))
           IN  /\ pr = NewReporter(IF op = "create" THEN CREATE_TOTAL_STEPS
                                   ELSE EXTRACT_TOTAL_STEPS, callback, now)
               /\ drv = [DrvIdle EXCEPT
                            !.pc = "start", !.op = op,
                            !.totalSize = GetTotalSize(source),
                            !.archiveSize = archiveSize,
                            !.fileSize = HEADER_SIZE + Len(metadata)
                                             + Len(cover) + archiveSize]

\* create: progressReporter.advance("packing"), then
\* setTotalData(getTotalSize(sourceDirectory))
CreateProgressStart ==
    /\ drv.pc = "start"
    /\ drv.op = "create"
    /\ pr' = SetTotalData(Advance(pr, "packing"), drv.totalSize)
    /\ drv' = [drv EXCEPT !.pc = "packing", !.sent = 0, !.last = "setTotalData"]
    /\ UNCHANGED <<containerVars, hc, mc, cb, now, gh>>

\* the next chunk of the stream: its length
NextChunkLen == Min(ChunkLen, drv.archiveSize - drv.sent)

\* a stream delivers a chunk and the listener calls updateData(chunk.length):
\* the compression stream of create ("packing"), the hash pass of extractGame
\* ("hashing") or its progress stream ("decompressing")
ProgressData(pc) ==
    /\ drv.pc = pc
    /\ drv.sent < drv.archiveSize
    /\ LET r == UpdateData(pr, NextChunkLen, now)
       IN  /\ pr' = r.session
           /\ cb' = Deliver(r.reports, "updateData")
    /\ drv' = [drv EXCEPT !.sent = drv.sent + NextChunkLen,
                          !.last = "updateData"]
    /\ UNCHANGED <<containerVars, hc, mc, now, gh>>

\* the last phase of the operation is through (create: the pipeline and the
\* header patch; extractGame: the unpack and the progress stream):
\* progressReporter.complete()
ProgressComplete(pc) ==
    /\ drv.pc = pc
    /\ drv.sent = drv.archiveSize
    /\ LET r == Complete(pr, now)
       IN  /\ pr' = r.session
           /\ cb' = Deliver(r.reports, "complete")
    /\ drv' = [drv EXCEPT !.pc = "done", !.last = "complete"]
    /\ UNCHANGED <<containerVars, hc, mc, now, gh>>

\* extractGame: generateHash advances the session to "hashing" and sets the
\* total to the size of the whole file
ExtractProgressHashStart ==
    /\ drv.pc = "start"
    /\ drv.op = "extractGame"
    /\ pr' = SetTotalData(Advance(pr, "hashing"), drv.fileSize)
    /\ drv' = [drv EXCEPT !.pc = "hashing", !.sent = 0, !.last = "setTotalData"]
    /\ UNCHANGED <<containerVars, hc, mc, cb, now, gh>>

\* extractGame: the digest matched; extractArchiveToDirectory advances the
\* session to "decompressing" and sets the total to the size of the file
ExtractProgressUnpackStart ==
    /\ drv.pc = "hashing"
    /\ drv.sent = drv.archiveSize
    /\ pr' = SetTotalData(Advance(pr, "decompressing"), drv.fileSize)
    /\ drv' = [drv EXCEPT !.pc = "decompressing", !.sent = 0,
                          !.last = "setTotalData"]
    /\ UNCHANGED <<containerVars, hc, mc, cb, now, gh>>

\* time passes while the operation runs
ProgressTick(ms) ==
    /\ drv.pc \in {"start", "packing", "hashing", "decompressing"}
    /\ drv.calls < MaxCalls
    /\ now' = now + ms
    /\ drv' = [drv EXCEPT !.calls = drv.calls + 1]
    /\ UNCHANGED <<containerVars, hc, mc, pr, cb, gh>>

NextProgress ==
    \/ CreateProgressStart
    \/ ExtractProgressHashStart
    \/ ExtractProgressUnpackStart
    \/ \E pc \in {"packing", "hashing", "decompressing"} : ProgressData(pc)
    \/ \E pc \in {"packing", "decompressing"} : ProgressComplete(pc)
    \/ \E ms \in ClockSteps : ProgressTick(ms)

SpecProgress == InitProgress /\ [][NextProgress]_vars

(***************************************************************************)
(* generateHash on its own: a reader that delivers some bytes in chunks,   *)
(* a file stream or another Readable, with a progress session or without.  *)
(***************************************************************************)
HashContents == UNION { [1..n -> {0, 7}] : n \in 0..MaxHashLen }

\* what lies in the file before the part the stream delivers (nothing, or a
\* header as in validateArchiveHash)
FilePrefixes == {0, HEADER_SIZE}

\* mutant: every reader passes for a file stream
IsReadStreamAlways(isReadStream) == TRUE

\* reader instanceof ReadStream
IsReadStream(isReadStream) == isReadStream

\* mutant: the digest is started anew with every chunk
HashListenerRestart(h, chunk) == DigestUpdate(DigestInit, chunk)

\* reader.on("data"): hash.update(chunk)
HashListener(h, chunk) == DigestUpdate(h, chunk)

\* where the chunk that starts after position pos ends
ChunkEnd(content, cuts, pos) ==
    MinOf({Len(content)} \cup {k \in cuts : k > pos})

InitHash ==
    /\ ContainerIdle
    /\ hc = HcIdle
    /\ mc = McIdle
    /\ drv = DrvIdle
    /\ now = FirstReading
    /\ cb = <<>>
    /\ \E callback \in BOOLEAN :
           pr = NewReporter(EXTRACT_TOTAL_STEPS, callback, now)
    /\ \E content \in HashContents, isReadStream \in BOOLEAN,
          withReporter \in BOOLEAN, prefix \in FilePrefixes :
           \E cuts \in SUBSET (1..(Len(content) - 1)) :
               gh = [GhIdle EXCEPT
                        !.pc = "called", !.isReadStream = isReadStream,
                        !.withReporter = withReporter, !.content = content,
                        !.cuts = cuts, !.fileSize = prefix + Len(content),
                        !.before = pr]

\* generateHash(reader, progressReporter): the executor of the promise
GenerateHashCall ==
    /\ gh.pc = "called"
    /\ IF gh.withReporter
       THEN IF IsReadStream(gh.isReadStream)
            THEN /\ pr' = SetTotalData(Advance(pr, "hashing"), gh.fileSize)
                 /\ gh' = [gh EXCEPT !.pc = "reading", !.hash = DigestInit]
            ELSE /\ pr' = pr
                 /\ gh' = [gh EXCEPT !.pc = "settled", !.result = "UsageError"]
       ELSE /\ pr' = pr
            /\ gh' = [gh EXCEPT !.pc = "reading", !.hash = DigestInit]
    /\ UNCHANGED <<containerVars, hc, mc, cb, now, drv>>

\* the reader emits "data"
GenerateHashData ==
    /\ gh.pc = "reading"
    /\ gh.pos < Len(gh.content)
    /\ LET end == ChunkEnd(gh.content, gh.cuts, gh.pos)
           chunk == Slice(gh.content, gh.pos, end)
           r == IF gh.withReporter THEN UpdateData(pr, Len(chunk), now)
                ELSE [session |-> pr, reports |-> <<>>]
       IN  /\ pr' = r.session
           /\ cb' = Deliver(r.reports, "updateData")
           /\ gh' = [gh EXCEPT !.hash = HashListener(gh.hash, chunk),
                               !.pos = end]
    /\ UNCHANGED <<containerVars, hc, mc, now, drv>>

\* the reader emits "end": resolve(hash.digest())
GenerateHashEnd ==
    /\ gh.pc = "reading"
    /\ gh.pos = Len(gh.content)
    /\ gh' = [gh EXCEPT !.pc = "settled", !.result = "ok",
                        !.digest = DigestFinal(gh.hash)]
    /\ UNCHANGED <<containerVars, hc, mc, pr, cb, now, drv>>

\* the reader emits "error": reject
GenerateHashError ==
    /\ gh.pc = "reading"
    /\ gh' = [gh EXCEPT !.pc = "settled", !.result = "StreamError"]
    /\ UNCHANGED <<containerVars, hc, mc, pr, cb, now, drv>>

NextHash ==
    GenerateHashCall \/ GenerateHashData \/ GenerateHashEnd \/ GenerateHashError

SpecHash == InitHash /\ [][NextHash]_vars

(***************************************************************************)
(* Claims.                                                                 *)
(***************************************************************************)

\* the container create writes for the source directory and the options
\* of the call, with the digest of its archive in the header
ExpectedContainer ==
    LET archive == Pack(sourceDir.entries, c.disableCompression)
        header == HeaderFromData(c.metadata, c.cover, DigestOf(archive))
    IN  HeaderToBytes(header) \o c.metadata \o c.cover \o archive

EmptyDir == Dir(EmptyEntries)

\* C1: extractGame (into an empty directory, not cancelled) fails with the
\* integrity-mismatch error whenever the digest of the file's archive region
\* [archiveOffset, EOF) differs from the digest in the handle's header, and
\* the target directory is then left empty.
C1_IntegrityMismatch ==
    ( /\ e.pc = "settled"
      /\ e.dirAtCall = EmptyDir
      /\ esignal.at = "never"
      /\ DigestOf(ArchiveRegion(targetFile, handle.header))
             /= handle.header.archiveHash )
    => (e.result = "IntegrityMismatch" /\ outDir = EmptyDir)

\* C1 witness: extraction of a file with a flipped archive bit has failed
\* with the integrity error
C1_Witness ==
    /\ e.result = "IntegrityMismatch"
    /\ tampered = "archive"
    /\ outDir = EmptyDir

\* C2: no archive byte is handed to the codec and nothing is written into
\* the target directory before the digest of the whole archive region has
\* been computed and found equal to the header's digest.
C2_VerifyBeforeUnpack ==
    (e.fed /= <<>> \/ outDir /= e.dirAtCall)
    => LET region == ArchiveRegion(targetFile, handle.header)
       IN  /\ e.pos = Len(region)
           /\ e.hash = DigestUpdate(DigestInit, region)
           /\ DigestFinal(e.hash) = handle.header.archiveHash

\* C2 witness: the codec has been fed and has written into the directory
C2_Witness == e.fed /= <<>> /\ outDir /= e.dirAtCall /\ e.pc = "unpacking"

\* C3: create, then open, then extractGame into an empty directory succeeds
\* and leaves the directory with exactly the files of the source directory,
\* with or without disableCompression.
C3_RoundTrip ==
    ( /\ c.result = "ok"
      /\ tampered = "none"
      /\ e.pc = "settled"
      /\ e.dirAtCall = EmptyDir
      /\ esignal.at = "never" )
    => (e.result = "ok" /\ outDir = Dir(sourceDir.entries))

\* C3 witness: two files came back out of a compressed container
C3_Witness ==
    /\ e.result = "ok"
    /\ ~c.disableCompression
    /\ Cardinality(DOMAIN outDir.entries) = 2

\* C4: when create has resolved, every byte of the archive is in the file
\* from archiveOffset on, and the 32-byte digest in the file's header and in
\* the returned handle is the digest of the file bytes [archiveOffset, EOF).
C4_CreateComplete ==
    (c.result = "ok" /\ tampered = "none")
    => LET bytes == targetFile.bytes
           region == From(bytes, c.header.archiveOffset)
       IN  /\ region = Pack(sourceDir.entries, c.disableCompression)
           /\ Len(c.header.archiveHash) = HASH_SIZE
           /\ c.header.archiveHash = DigestOf(region)
           /\ Slice(bytes, ARCHIVE_HASH, HEADER_SIZE) = DigestOf(region)

\* C4 witness: create has resolved for an archive of more than one chunk
C4_Witness ==
    /\ c.result = "ok"
    /\ tampered = "none"
    /\ Len(Pack(sourceDir.entries, c.disableCompression)) > ChunkLen

\* C5: after a successful create metadataOffset = 64, metadataOffset +
\* metadataLength = coverOffset, coverOffset + coverLength = archiveOffset,
\* the lengths are those of the metadata and cover written, and
\* archiveOffset is the position of the first archive byte.
C5_Layout ==
    (c.result = "ok" /\ tampered = "none")
    => LET h == c.header
           bytes == targetFile.bytes
           archive == Pack(sourceDir.entries, c.disableCompression)
       IN  /\ h.metadataOffset = HEADER_SIZE
           /\ h.metadataOffset + h.metadataLength = h.coverOffset
           /\ h.coverOffset + h.coverLength = h.archiveOffset
           /\ h.metadataLength = Len(c.metadata)
           /\ h.coverLength = Len(c.cover)
           /\ Slice(bytes, h.metadataOffset, h.coverOffset) = c.metadata
           /\ Slice(bytes, h.coverOffset, h.archiveOffset) = c.cover
           /\ Len(bytes) = h.archiveOffset + Len(archive)
           /\ Slice(bytes, h.archiveOffset, Len(bytes)) = archive
           /\ HeaderFromFile(targetFile) = h

\* C5 witness: a container with an empty cover has been created
C5_Witness == c.result = "ok" /\ tampered = "none" /\ c.cover = <<>>

\* C6: create on an existing path without overwrite fails with the
\* target-exists error before anything else and leaves the file unchanged;
\* with overwrite it succeeds and the file is entirely the new container.
C6_OverwriteGate ==
    /\ (c.pc = "settled" /\ c.existed /\ ~c.overwrite)
       => (c.result = "TargetExists" /\ targetFile = OldFile)
    /\ ( /\ c.pc = "settled" /\ c.existed /\ c.overwrite
         /\ CheckPathExists(sourceDir, "directory") = "ok" /\ c.coverFound
         /\ csignal.at = "never" /\ tampered = "none" )
       => (c.result = "ok" /\ targetFile = File(ExpectedContainer))

\* C6 witness: an existing file has been overwritten by a container
C6_Witness == c.result = "ok" /\ c.existed /\ c.overwrite /\ tampered = "none"

\* C7: extractGame into a directory with at least one entry fails with the
\* target-directory-not-empty error and leaves the directory as it was.
C7_NonEmptyTarget ==
    (e.pc = "settled" /\ DOMAIN e.dirAtCall.entries /= {})
    => (e.result = "TargetDirectoryNotEmpty" /\ outDir = e.dirAtCall)

\* C7 witness: extraction into a populated directory was refused
C7_Witness ==
    /\ e.result = "TargetDirectoryNotEmpty"
    /\ DOMAIN outDir.entries /= {}

\* header, metadata and cover are written and create has not settled
PrefixWritten ==
    /\ c.pc \in {"streaming", "patching"}
    /\ c.opened
    /\ Len(targetFile.bytes) >= c.header.archiveOffset

\* C8: once header, metadata and cover are written, the digest field (bytes
\* 32..63) is all zero until one patch write, made after the archive is
\* completely appended, and no other byte below archiveOffset ever changes.
C8_PatchOnlyDigest ==
    [][ PrefixWritten =>
          LET old == targetFile.bytes
              new == targetFile'.bytes
              ao == c.header.archiveOffset
          IN  /\ Slice(old, ARCHIVE_HASH, HEADER_SIZE) = Zeros(HASH_SIZE)
              /\ Slice(new, HEADER_START, ARCHIVE_HASH)
                     = Slice(old, HEADER_START, ARCHIVE_HASH)
              /\ Slice(new, HEADER_SIZE, ao) = Slice(old, HEADER_SIZE, ao)
              /\ Slice(new, ARCHIVE_HASH, HEADER_SIZE)
                     /= Slice(old, ARCHIVE_HASH, HEADER_SIZE)
                 => /\ c.pc = "patching"
                    /\ c'.pc = "settled"
                    /\ From(old, ao)
                           = Pack(sourceDir.entries, c.disableCompression)
      ]_vars

\* C8 witness: the patch has put a digest into the field
C8_Witness ==
    /\ c.result = "ok"
    /\ tampered = "none"
    /\ Slice(targetFile.bytes, ARCHIVE_HASH, HEADER_SIZE) /= Zeros(HASH_SIZE)

\* errors thrown by the checks of the arguments, before any stream is opened
ArgumentErrors ==
    {"TargetExists", "PathNotFound", "NotADirectory", "NotAFile",
     "TargetDirectoryNotEmpty"}

\* C9: if the cancellation signal fires before or at any point during create
\* or extractGame, the operation (once past the checks of its arguments)
\* settles by rejecting with the abort error; it never resolves.
C9_AbortRejects ==
    /\ (c.pc = "settled" /\ csignal.at /= "never"
            /\ c.result \notin ArgumentErrors)
       => c.result = "AbortError"
    /\ (e.pc = "settled" /\ esignal.at /= "never"
            /\ e.result \notin ArgumentErrors)
       => e.result = "AbortError"

\* C10: for every Header whose six integer fields are uint32 values (0
\* included) and whose digest has 32 bytes, Header.fromBytes(h.toBytes())
\* equals h field for field, and encoding it again yields the same 64 bytes.
C10_HeaderRoundTrip ==
    /\ hc.pc \in {"decoded", "reencoded"} => hc.decoded = hc.h
    /\ hc.pc = "reencoded" => hc.again = hc.bytes


\* C11: for every valid Metadata m (empty texts, rating 0, empty lists and
\* server false included), Metadata.fromBytes(m.toBytes()) succeeds and is
\* equal to m field for field.
C11_MetadataRoundTrip ==
    mc.pc = "decoded" => mc.result = "ok" /\ mc.decoded = mc.m

\* C11 witness: a Metadata with a quote in its name, rating 0, no genres and
\* server false has been encoded and decoded
C11_Witness ==
    /\ mc.pc = "decoded"
    /\ mc.m.name = Str(<<QUOTE>>)
    /\ mc.m.rating = Num(0)
    /\ mc.m.genres = Arr(<<>>)
    /\ mc.m.server = Bool(FALSE)
    /\ mc.m.description = Str(<<>>)


\* C12: after a successful create, fromFile of the written file returns a
\* handle whose header, metadata and cover equal those of the handle create
\* returned, and getCoverFromFile of the file that create has just written
\* returns the cover bytes given to create (as base64 text, which decodes to
\* exactly these bytes).
C12_OpenEqualsCreated ==
    /\ (c.result = "ok" /\ handle.result /= "none" /\ tampered /= "digest")
       => handle = CreatedHandle(c)
    /\ (c.result = "ok" /\ handle.result = "none")
       => LET cover == GetCoverFromFile(targetFile, <<>>)
          IN  cover = Base64(c.cover) /\ Base64Decode(cover) = c.cover

\* C12 witness: a container with a cover has been created and opened
C12_Witness ==
    /\ c.result = "ok"
    /\ handle.open
    /\ c.cover /= <<>>
    /\ handle.cover /= <<>>


\* the reports one method has delivered, in order
ReportsBy(log, method) == SelectSeq(log, LAMBDA x : x.by = method)

\* C14: complete() on a session with a callback emits exactly one report,
\* however recently updateData emitted, and that report has currentStep =
\* totalSteps, currentData = totalData and timeRemaining exactly 0.
C14_CompleteReports ==
    [][ (drv'.last = "complete" /\ drv'.calls = drv.calls + 1 /\ pr.callback)
        => /\ Len(cb') = Len(cb) + 1
           /\ SubSeq(cb', 1, Len(cb)) = cb
           /\ LET last == cb'[Len(cb')]
              IN  /\ last.by = "complete"
                  /\ last.report.currentStep = pr.totalSteps
                  /\ last.report.totalSteps = pr.totalSteps
                  /\ last.report.currentData = pr.totalData
                  /\ last.report.totalData = pr.totalData
                  /\ last.report.timeRemaining = Whole(0)
      ]_vars

\* C14 witness: complete() has reported at the very time updateData did
C14_Witness ==
    /\ Len(cb) >= 2
    /\ cb[Len(cb)].by = "complete"
    /\ cb[Len(cb) - 1].by = "updateData"
    /\ cb[Len(cb)].at = cb[Len(cb) - 1].at

\* C15: the report of complete() carries progress exactly 100, whatever the
\* session's totalSteps, totalData (0 or never set included) and currentData.
C15_CompleteIsHundred ==
    \A i \in 1..Len(cb) :
        cb[i].by = "complete" => cb[i].report.progress = Whole(PROGRESS_MAX)

\* C16: updateData calls the callback if and only if one is registered and
\* at least 1000 ms have passed since the previous report of updateData (the
\* first updateData of a session always reports); so any two reports of
\* updateData are at least 1000 ms apart.
C16_Throttle ==
    [][ (drv'.last = "updateData" /\ drv'.calls = drv.calls + 1)
        => LET before == ReportsBy(cb, "updateData")
               after == ReportsBy(cb', "updateData")
           IN  /\ (Len(cb') = Len(cb) + 1)
                    <=> ( /\ pr.callback
                          /\ \/ before = <<>>
                             \/ now - before[Len(before)].at >= 1000 )
               /\ Len(cb') \in {Len(cb), Len(cb) + 1}
               /\ \A k \in 1..(Len(after) - 1) :
                      after[k + 1].at - after[k].at >= 1000
      ]_vars

\* C16 witness: updateData has reported twice and has been held back once
C16_Witness ==
    /\ Len(ReportsBy(cb, "updateData")) = 2
    /\ drv.last = "updateData"
    /\ now = cb[Len(cb)].at
    /\ pr.currentData > cb[Len(cb)].report.currentData

\* C17: with totalData > 0, progress() is (currentStep - 1) * (100 /
\* totalSteps) + (currentData / totalData) * (100 / totalSteps); with one
\* step, after advance, setTotalData(200) and updateData(100) it is 50.
C17_ProgressFormula ==
    (drv.pc = "session" /\ pr.totalData > 0)
    => LET p == Progress(pr)
       IN  /\ p.kind = "fin"
           /\ p.n * pr.totalSteps * pr.totalData
                = p.d * 100 * ((pr.currentStep - 1) * pr.totalData
                                   + pr.currentData)
           /\ ( /\ pr.totalSteps = 1
                /\ pr.currentStep = 1
                /\ pr.totalData = 200
                /\ pr.currentData = 100 ) => p = Whole(50)

\* C17 witness: one step, advance, setTotalData(200), updateData(100)
C17_Witness ==
    /\ drv.pc = "session"
    /\ drv.last = "updateData"
    /\ drv.calls = 3
    /\ pr.totalSteps = 1
    /\ pr.currentStep = 1
    /\ pr.totalData = 200
    /\ pr.currentData = 100

\* C18: whenever updateData reports while the percent is 0, the report's
\* timeRemaining is the value the session starts with
\* (Number.MAX_SAFE_INTEGER), never Infinity or NaN.
C18_ZeroPercentSentinel ==
    \A i \in 1..Len(cb) :
        (cb[i].by = "updateData" /\ cb[i].report.progress = Whole(0))
        => cb[i].report.timeRemaining = MAX_SAFE_INTEGER


\* C13: over the reports one create or extractGame delivers to the callback
\* (those of updateData and the one of complete()), currentStep never
\* decreases and percent never decreases from one report to the next, within
\* a step and from the last report of a step to the first of the next.
C13_ProgressMonotonic ==
    \A i \in 1..(Len(cb) - 1) :
        /\ cb[i].report.currentStep <= cb[i + 1].report.currentStep
        /\ JsLe(cb[i].report.progress, cb[i + 1].report.progress)


\* C19: generateHash called with a progress reporter and a reader that is
\* no file stream fails at once with a usage error: the promise rejects,
\* the session is as it was (nothing reported either), and no chunk of the
\* reader is consumed.
C19_UsageError ==
    (gh.withReporter /\ ~gh.isReadStream /\ gh.pc \notin {"idle", "called"})
    => /\ gh.pc = "settled"
       /\ gh.result = "UsageError"
       /\ pr = gh.before
       /\ cb = <<>>
       /\ gh.pos = 0

\* C19 witness: such a call, on a reader that has bytes to deliver, is settled
C19_Witness ==
    /\ gh.withReporter
    /\ ~gh.isReadStream
    /\ gh.pc = "settled"
    /\ gh.content /= <<>>

\* C20: the digest generateHash resolves with is the digest of the bytes the
\* reader delivered, put together: it does not depend on how they are split
\* into chunks nor on a progress reporter, and for a reader that ends without
\* a byte it is the digest of the empty input; it has 32 bytes.
C20_DigestOfContent ==
    (gh.pc = "settled" /\ gh.result = "ok")
    => /\ gh.digest = DigestOf(gh.content)
       /\ Len(gh.digest) = HASH_SIZE
       /\ gh.content = <<>> => gh.digest = DigestFinal(DigestInit)

\* C20 witness: a digest over three chunks, with a progress reporter
C20_Witness ==
    /\ gh.pc = "settled"
    /\ gh.result = "ok"
    /\ gh.withReporter
    /\ Cardinality(gh.cuts) = 2


\* the six integer fields of a Header, each with its offset in the 64 bytes
\* and the value the constructor puts for a missing (or zero) option
HeaderFields ==
    { <<"version", VERSION, DEFAULT_VERSION>>,
      <<"metadataOffset", METADATA_OFFSET, HEADER_SIZE>>,
      <<"metadataLength", METADATA_LENGTH, DEFAULT_ZERO>>,
      <<"coverOffset", COVER_OFFSET, DEFAULT_ZERO>>,
      <<"coverLength", COVER_LENGTH, DEFAULT_ZERO>>,
      <<"archiveOffset", ARCHIVE_OFFSET, DEFAULT_ZERO>> }

\* C21: Header.toBytes returns exactly 64 bytes: bytes 0..7 are the signature
\* 'CLBG' CR LF 0x1A LF, the little-endian uint32 fields version,
\* metadataOffset, metadataLength, coverOffset, coverLength, archiveOffset are
\* at offsets 8, 12, 16, 20, 24, 28 and bytes 32..63 hold the digest (all zero
\* for the empty placeholder); Header.fromBytes takes every field from the
\* same position (a zero found there is then replaced by the constructor's
\* default) and the digest from bytes 32..63.
C21_HeaderLayout ==
    /\ hc.pc /= "new" =>
         /\ Len(hc.bytes) = 64
         /\ Slice(hc.bytes, 0, 8) = <<67, 76, 66, 71, 13, 10, 26, 10>>
         /\ ReadUInt32LE(hc.bytes, 8) = hc.h.version
         /\ ReadUInt32LE(hc.bytes, 12) = hc.h.metadataOffset
         /\ ReadUInt32LE(hc.bytes, 16) = hc.h.metadataLength
         /\ ReadUInt32LE(hc.bytes, 20) = hc.h.coverOffset
         /\ ReadUInt32LE(hc.bytes, 24) = hc.h.coverLength
         /\ ReadUInt32LE(hc.bytes, 28) = hc.h.archiveOffset
         /\ Slice(hc.bytes, 32, 64)
                = IF hc.h.archiveHash = <<>> THEN Zeros(32) ELSE hc.h.archiveHash
    /\ hc.pc \in {"decoded", "reencoded"} =>
         /\ \A f \in HeaderFields :
                LET stored == ReadUInt32LE(hc.bytes, f[2])
                IN  hc.decoded[f[1]] = IF stored = 0 THEN f[3] ELSE stored
         /\ hc.decoded.archiveHash = Slice(hc.bytes, 32, 64)

\* C21 witness: a header with the empty placeholder digest, coverOffset and
\* coverLength different and archiveOffset 0 has been encoded and decoded
C21_Witness ==
    /\ hc.pc = "decoded"
    /\ hc.h.archiveHash = <<>>
    /\ hc.h.version = 1
    /\ hc.h.metadataOffset = 65601
    /\ hc.h.metadataLength = 2147483647
    /\ hc.h.coverOffset = 65601
    /\ hc.h.coverLength = 1
    /\ hc.h.archiveOffset = 0


\* C24: a Metadata built from only igdbId and name has description,
\* developer, publisher and releaseDate equal to the empty string, rating 0,
\* genres, themes and keywords equal to empty lists and server false;
\* Metadata.fromBytes gives every optional key that is absent from the wire
\* JSON exactly the same default (and every key that is there its value).
C24_MetadataDefaults ==
    /\ mc.pc \in {"wire", "parsed"} =>
         /\ mc.m.description = Str(<<>>)
         /\ mc.m.developer = Str(<<>>)
         /\ mc.m.publisher = Str(<<>>)
         /\ mc.m.releaseDate = Str(<<>>)
         /\ mc.m.rating = Num(0)
         /\ mc.m.genres = Arr(<<>>)
         /\ mc.m.themes = Arr(<<>>)
         /\ mc.m.keywords = Arr(<<>>)
         /\ mc.m.server = Bool(FALSE)
         /\ mc.m.igdbId = Num(1230)
         /\ mc.m.name.t = "str"
    /\ mc.pc = "parsed" =>
         /\ mc.result = "ok"
         /\ mc.decoded.igdbId = mc.m.igdbId
         /\ mc.decoded.name = mc.m.name
         /\ \A f \in OptionalFields :
                mc.decoded[f[1]] = IF f[2] \in mc.absent THEN mc.m[f[1]]
                                   ELSE WireSample[f[1]]

\* C24 witness: a wire JSON with igdb_id and name only has been decoded
C24_Witness ==
    /\ mc.pc = "parsed"
    /\ mc.absent = OptionalKeys
    /\ mc.decoded.name = Str(<<QUOTE>>)


\* the path given to fromFile holds a regular file
OpenedRegularFile ==
    /\ handle.result /= "none"
    /\ targetFile.exists
    /\ targetFile /= Dir(EmptyEntries)

\* C22: decoding a header whose first 8 bytes differ from the signature
\* constant (Header.fromBytes, Header.fromFile and therefore open) is
\* rejected at once with a malformed-header error of its own, before the
\* metadata region is read or parsed.
C22_SignatureChecked ==
    ( /\ OpenedRegularFile
      /\ ReadRange(targetFile.bytes, HEADER_START, 8) /= SIGNATURE )
    => handle.result = "MalformedHeader"

\* the errors checkPathExists throws
PathErrors == {"PathNotFound", "NotAFile", "NotADirectory"}

\* C23: checkPathExists(path, expectedType) throws 'Target path does not
\* exist' when the path is absent, 'Path is not a file' when a file is
\* expected and the path holds something else, 'Path is not a directory' when
\* a directory is expected and the path holds something else, and returns in
\* exactly the other cases; what is at the path stays as it is.  (fromFile
\* calls it on its path expecting a file, extractGame on its target
\* expecting a directory.)
C23_CheckPathExists ==
    /\ handle.result /= "none" =>
         /\ CheckPathExists(targetFile, "file") =
                (IF targetFile = NoFile THEN "PathNotFound"
                 ELSE IF targetFile = Dir(EmptyEntries) THEN "NotAFile"
                 ELSE "ok")
         /\ targetFile = NoFile => handle.result = "PathNotFound"
         /\ targetFile = Dir(EmptyEntries) => handle.result = "NotAFile"
         /\ OpenedRegularFile => handle.result \notin PathErrors
         /\ targetFile \in PathsToOpen
    /\ e.pc /= "idle" =>
         /\ CheckPathExists(e.dirAtCall, "directory") =
                (IF e.dirAtCall = NoDir THEN "PathNotFound"
                 ELSE IF e.dirAtCall = FileAtTarget THEN "NotADirectory"
                 ELSE "ok")
         /\ e.dirAtCall = NoDir =>
                e.result = "PathNotFound" /\ outDir = NoDir
         /\ e.dirAtCall = FileAtTarget =>
                e.result = "NotADirectory" /\ outDir = FileAtTarget
         /\ e.dirAtCall \notin {NoDir, FileAtTarget} =>
                e.result \notin PathErrors

\* C23 witness: fromFile and extractGame have both got past the check, on a
\* file and on a directory
C23_Witness ==
    /\ handle.open
    /\ e.pc = "hashing"
    /\ e.dirAtCall = EmptyDir

\* C25: open (fromFile) does not look at the archive.  For a file laid out
\* as create lays it out (metadata and cover below archiveOffset), the
\* outcome and the header, metadata and cover returned are those of every
\* file with the same bytes below archiveOffset, whatever its archive region
\* (a corrupt or an empty one, one whose digest is not the header's), and
\* open succeeds whenever the metadata region is JSON.
C25_OpenIgnoresArchive ==
    (handle.result /= "none" /\ e.pc = "idle" /\ targetFile \in ContainerFiles)
    => LET header == HeaderFromFile(targetFile)
           below == Slice(targetFile.bytes, 0, header.archiveOffset)
       IN  /\ \A region \in ArchiveRegions :
                  FromFile(File(below \o region)) = handle
           /\ JsonValid(Slice(below, header.metadataOffset,
                              header.metadataOffset + header.metadataLength))
                  => handle.result = "ok"

\* C25 witness: a file with an empty archive region and a digest that is not
\* the one of the empty input has been opened
C25_Witness ==
    /\ handle.open
    /\ e.pc = "idle"
    /\ ArchiveRegion(targetFile, handle.header) = <<>>
    /\ handle.header.archiveHash /= DigestOf(<<>>)

\* what the codec chosen by the sniff makes of the archive region of the
\* opened file
Unpacked == Unpack(ArchiveRegion(targetFile, handle.header), e.isCompressed)

\* C26: in the unpack phase of extractGame, for every interleaving of the
\* progress-shadow read and the real unpack, the phase ends (extractGame
\* signals completion and resolves) only after the real unpack has finished
\* successfully; an error or an early end of the shadow read neither makes
\* extractGame fail nor lets it complete before the unpack has finished.
C26_UnpackJoin ==
    [][ e.pc = "unpacking" =>
          /\ (e'.pc = "settled" /\ e'.result = "ok") =>
                /\ e.unpacked
                /\ Unpacked.ok
                /\ outDir = Dir(Merge(e.dirAtCall.entries, Unpacked.entries))
                /\ outDir' = outDir
          /\ Len(ReportsBy(cb', "complete")) > 0 =>
                (e'.pc = "settled" /\ e'.result = "ok")
          /\ e'.progressCompleted /= e.progressCompleted =>
                /\ e'.pc = "unpacking"
                /\ e'.unpacked = e.unpacked
                /\ outDir' = outDir
                /\ cb' = cb
          /\ (e'.pc = "settled" /\ e'.result /= "ok") =>
                /\ ~e.unpacked
                /\ e'.result \in {"CodecFailure", "AbortError"}
      ]_vars

\* C26 witness: the shadow read was ended by an abort during the unpack
\* phase, and extractGame has resolved with the directory unpacked
C26_Witness ==
    /\ e.result = "ok"
    /\ e.unpacked
    /\ esignal.at = "unpacking"
    /\ e.progPos < Len(ArchiveRegion(targetFile, handle.header))

\* C27: every extractGame call eventually settles (resolves or rejects) for
\* every container file and every target, given that the reads and the codec
\* terminate; in particular when the archive region is empty or shorter than
\* two bytes.
C27_ExtractSettles == (e.pc /= "idle") ~> (e.pc = "settled")

\* the reports complete() has delivered to the callback of the running call
Completions == ReportsBy(cb, "complete")

\* exactly one completion report, with timeRemaining 0, and it is the last
OneCompletionLast ==
    /\ Len(Completions) = 1
    /\ Len(cb) > 0
    /\ cb[Len(cb)].by = "complete"
    /\ cb[Len(cb)].report.timeRemaining = Whole(0)

\* C28: a create or extractGame call that succeeds with a callback
\* registered delivers exactly one completion report (timeRemaining 0),
\* after all writes to the file or the directory are done, and as its last
\* report; a call that fails delivers no completion report.
C28_OneCompletion ==
    /\ (c.pc = "settled" /\ e.pc = "idle") =>
          IF c.result = "ok"
          THEN /\ OneCompletionLast
               /\ tampered = "none" => targetFile = File(ExpectedContainer)
          ELSE Completions = <<>>
    /\ (c.pc \notin {"idle", "settled"}) => Completions = <<>>
    /\ e.pc = "settled" =>
          IF e.result = "ok"
          THEN /\ OneCompletionLast
               /\ Unpacked.ok
               /\ outDir = Dir(Merge(e.dirAtCall.entries, Unpacked.entries))
          ELSE Completions = <<>>
    /\ (e.pc \notin {"idle", "settled"}) => Completions = <<>>

\* C28 witness: extractGame has succeeded and its callback has got a data
\* report and then the completion report
C28_Witness ==
    /\ e.result = "ok"
    /\ Len(cb) = 2
    /\ cb[1].by = "updateData"
    /\ cb[2].by = "complete"
    /\ DOMAIN outDir.entries /= {}

\* C29: extractGame checks the target before it reads any archive byte:
\* when the target directory does not exist, is not a directory or is not
\* empty, it fails without starting the hash pass, without advancing the
\* progress session and without delivering any report.
C29_TargetFirst ==
    ( /\ e.pc /= "idle"
      /\ \/ e.dirAtCall = NoDir
         \/ e.dirAtCall = FileAtTarget
         \/ DOMAIN e.dirAtCall.entries /= {} )
    => /\ e.pc = "settled"
       /\ e.result = (IF e.dirAtCall = NoDir THEN "PathNotFound"
                      ELSE IF e.dirAtCall = FileAtTarget THEN "NotADirectory"
                      ELSE "TargetDirectoryNotEmpty")
       /\ e.pos = ExtractIdle.pos
       /\ e.hash = ExtractIdle.hash
       /\ pr.currentStep = 0
       /\ pr.currentAction = ""
       /\ pr.totalData = 0
       /\ cb = <<>>
       /\ outDir = e.dirAtCall

\* C29 witness: extractGame with a callback has been called on a directory
\* that holds an entry, for a file whose archive would have passed
C29_Witness ==
    /\ e.result = "TargetDirectoryNotEmpty"
    /\ drv.onProgress
    /\ pr.totalSteps = EXTRACT_TOTAL_STEPS
    /\ DigestOf(ArchiveRegion(targetFile, handle.header))
           = handle.header.archiveHash

\* the first two bytes of the archive region are 0x1f 0x8b
GzipMagic ==
    LET region == ArchiveRegion(targetFile, handle.header)
    IN  /\ Len(region) >= 2
        /\ region[1] = 31
        /\ region[2] = 139

C30_WitnessPlain ==
    /\ e.result = "ok"
    /\ ~e.isCompressed
    /\ DOMAIN outDir.entries /= {}

\* C31: for every container written by create, extractGame takes the
\* decompression path exactly when create was called without
\* disableCompression: the sniffing at extract time recovers the choice made
\* at create time, whatever the packed content is.
C31_CompressionRecovered ==
    (c.result = "ok" /\ tampered /= "archive") =>
        /\ e.isCompressed => ~c.disableCompression
        /\ (e.pc = "unpacking" \/ e.unpacked \/ e.result = "ok") =>
               (e.isCompressed <=> ~c.disableCompression)
        /\ IsCompressed(ArchiveRegion(targetFile, c.header))
               <=> ~c.disableCompression

\* C31 witness: a container created with disableCompression from a
\* directory with a file in it has been extracted by the unpacker alone
C31_Witness ==
    /\ c.result = "ok"
    /\ c.disableCompression
    /\ e.result = "ok"
    /\ ~e.isCompressed
    /\ outDir = sourceDir
    /\ DOMAIN sourceDir.entries /= {}

\* C32: generateHash with a progress session and a file stream advances the
\* session by exactly one step, sets the step's totalData to the number of
\* bytes the stream delivers, and feeds the length of every chunk to
\* updateData: when the stream has ended, the step's currentData is the sum
\* of the chunk lengths and equals totalData.
C32_HashStepAccounting ==
    (gh.pc = "settled" /\ gh.result = "ok" /\ gh.withReporter)
    => /\ pr.currentStep = gh.before.currentStep + STEP_OFFSET
       /\ pr.currentAction = "hashing"
       /\ pr.currentData = Len(gh.content)
       /\ pr.totalData = Len(gh.content)
       /\ pr.currentData = pr.totalData

\* C33: the bytes extractGame feeds to the unpacker are the bytes over which
\* the verified digest was computed, also when another party modifies the
\* file between the verification pass and the unpack pass: bytes whose
\* digest was not verified are never unpacked.
C33_UnpacksVerifiedBytes ==
    e.fed /= <<>>
    => \E verified \in ArchiveRegions :
          /\ DigestOf(verified) = handle.header.archiveHash
          /\ DigestFinal(e.hash) = handle.header.archiveHash
          /\ e.fed = Slice(verified, 0, Len(e.fed))

\* C34: advance(label) increases currentStep by exactly one, sets currentData
\* to 0 and the current action to label, leaves totalSteps, totalData, the
\* start time, the time of the last report and the callback as they are, and
\* delivers no report.
C34_AdvanceFrame ==
    [][ (drv'.last = "advance" /\ drv'.calls = drv.calls + 1)
        => /\ pr'.currentStep = pr.currentStep + 1
           /\ pr'.currentData = 0
           /\ pr'.currentAction \in ActionNames
           /\ pr'.totalSteps = pr.totalSteps
           /\ pr'.totalData = pr.totalData
           /\ pr'.startTime = pr.startTime
           /\ pr'.lastUpdated = pr.lastUpdated
           /\ pr'.callback = pr.callback
           /\ pr'.timeRemaining = pr.timeRemaining
           /\ cb' = cb
           /\ now' = now
      ]_vars

\* C34 witness: advance has been called on a session with a total, counted
\* bytes and a report behind it
C34_Witness ==
    /\ drv.last = "advance"
    /\ pr.currentStep = 1
    /\ pr.currentAction = "test"
    /\ pr.currentData = 0
    /\ pr.totalData = 200
    /\ pr.lastUpdated > 0
    /\ Len(cb) = 1
    /\ cb[1].report.currentData = 100

\* C35: if create fails because the source directory does not exist or is
\* not a directory, or because the cover path does not exist or is not a
\* file, the target path has been neither created nor modified (an existing
\* target with overwrite = true keeps its content).
C35_FailedChecksLeaveTarget ==
    /\ (c.pc = "settled" /\ c.result \in PathErrors) =>
          /\ ~c.opened
          /\ targetFile = (IF c.existed THEN OldFile ELSE NoFile)
    /\ (c.pc /= "idle" /\ sourceDir = NoDir /\ ~(c.existed /\ ~c.overwrite))
          => (c.pc = "settled" /\ c.result = "PathNotFound")
    /\ (c.pc /= "idle" /\ sourceDir = FileAtTarget
            /\ ~(c.existed /\ ~c.overwrite))
          => (c.pc = "settled" /\ c.result = "NotADirectory")
    /\ c.result = "NotAFile" =>
          (CheckPathExists(sourceDir, "directory") = "ok" /\ ~c.coverFound)
    /\ (c.pc /= "idle" /\ ~c.coverFound /\ ~(c.existed /\ ~c.overwrite))
          => (c.pc = "settled" /\ c.result \in PathErrors)

\* C35 witness: create with overwrite, on a target that exists, has failed
\* because the cover path holds a directory
C35_Witness ==
    /\ c.result = "NotAFile"
    /\ c.existed
    /\ c.overwrite
    /\ DOMAIN sourceDir.entries /= {}

\* C36: once a create or extractGame call has settled (resolved or rejected,
\* a rejection by a failure of the unpack while the progress-shadow read is
\* still running included), the progress callback is not invoked again for
\* that operation.
C36_SilentAfterSettle ==
    [][ /\ (e.pc = "settled" /\ e'.pc = "settled") => cb' = cb
        /\ (c.pc = "settled" /\ c'.pc = "settled" /\ e'.pc = "idle")
              => cb' = cb
      ]_vars

\* a report whose progress lies in 0..100 and whose byte count is at most
\* the step's total
InRange(report) ==
    /\ JsLe(Whole(0), report.progress)
    /\ JsLe(report.progress, Whole(PROGRESS_MAX))
    /\ report.currentData <= report.totalData

\* C37: in every report delivered during create or extractGame, progress is
\* a number between 0 and 100 inclusive and currentData is at most
\* totalData, whatever the sizes of the source tree, of the codec output and
\* of the container file.
C37_ReportsInRange == \A i \in 1..Len(cb) : InRange(cb[i].report)

\* C38: in every state of the progress session of a create or extractGame
\* call currentStep is at most totalSteps, and in every report delivered to
\* the callback 1 <= currentStep <= totalSteps (create declares 1 step,
\* extractGame 2: hashing, then decompressing).
C38_StepsWithinTotal ==
    /\ pr.currentStep <= pr.totalSteps
    /\ \A i \in 1..Len(cb) :
          /\ 1 <= cb[i].report.currentStep
          /\ cb[i].report.currentStep <= cb[i].report.totalSteps
    /\ (c.pc \notin {"idle", "settled"}) =>
          /\ pr.totalSteps = 1
          /\ pr.currentStep = 1
          /\ pr.currentAction = "packing"
    /\ e.pc /= "idle" => pr.totalSteps = 2
    /\ e.pc = "hashing" =>
          (pr.currentStep = 1 /\ pr.currentAction = "hashing")
    /\ e.pc \in {"sniffing", "unpacking"} =>
          (pr.currentStep = 2 /\ pr.currentAction = "decompressing")
    /\ (e.pc = "settled" /\ e.result = "ok") => pr.currentStep = 2

\* C38 witness: extractGame has reported in its first step and in its
\* second
C38_Witness ==
    /\ e.result = "ok"
    /\ Len(cb) >= 2
    /\ cb[1].report.currentStep = 1
    /\ cb[1].report.currentAction = "hashing"
    /\ cb[Len(cb)].report.currentStep = 2
    /\ cb[Len(cb)].report.totalSteps = EXTRACT_TOTAL_STEPS

=============================================================================
